---- MODULE Spec2Model ----
(***************************************************************************)
(* Shield Core: the layered evaluation pipeline (input firewall,          *)
(* alignment checker, policy engine, evaluation coordinator) and the HITL  *)
(* task lifecycle driven through the persistence layer.                    *)
(*                                                                         *)
(* Text is modelled at character level: a Rust String is a sequence of     *)
(* one-character strings.  Amounts (f64) are modelled as integers counting *)
(* cents, so 100.0 is 10000.                                               *)
(***************************************************************************)
EXTENDS Integers, Sequences, FiniteSets, TLC

VARIABLES
    config,             \* process-wide configuration, fixed after start-up
    pc,                 \* position of the evaluation in EvaluationCoordinator::evaluate
    action,             \* the AgentAction being evaluated
    firewall_outcome,   \* FirewallOutcome of layer 1
    alignment_outcome,  \* AlignmentOutcome of layer 2
    policy_outcome,     \* PolicyOutcome of layer 3
    guard_result,       \* what LlamaGuardFirewall::classify returned to this evaluation
    eval_reasons,       \* evaluate's local `reasons`
    eval_rule_hits,     \* evaluate's local `rule_hits`
    eval_neural_signals, \* evaluate's local `neural_signals`
    result,             \* CoordinatorResult {evaluation, hitl_task}
    invoked,            \* the layers invoked so far, in call order
    hitl_tasks,         \* table hitl_tasks: task id -> row
    reqs,               \* in-flight submit_hitl_decision requests
    now,                \* chrono::Utc::now(), as a count of clock ticks
    agent_actions,      \* table agent_actions: action id -> row
    evaluations,        \* table evaluations: evaluation id -> row
    http,               \* the evaluate_action request being served
    replay,             \* the first evaluation an observer of evaluate has seen
    company_members     \* table company_members of one company: user id -> role

vars == <<config, pc, action, firewall_outcome, alignment_outcome, policy_outcome,
          guard_result, eval_reasons, eval_rule_hits, eval_neural_signals, result, invoked,
          hitl_tasks, reqs, now, agent_actions, evaluations, http, replay, company_members>>

evalVars == <<config, pc, action, firewall_outcome, alignment_outcome, policy_outcome,
              guard_result, eval_reasons, eval_rule_hits, eval_neural_signals, result,
              invoked>>

hitlVars == <<hitl_tasks, reqs, now>>

storeVars == <<agent_actions, evaluations, http>>

(***************************************************************************)
(* Option<T>                                                               *)
(***************************************************************************)
None == [some |-> FALSE]

Some(x) == [some |-> TRUE, v |-> x]

(***************************************************************************)
(* Domain records: domain/action.rs, domain/evaluation.rs, config.rs       *)
(***************************************************************************)
\* struct AgentAction (the fields the engine reads)
AgentAction(id, original_intent, action_type, payload, cot_trace) ==
    [ id              |-> id,
      original_intent |-> original_intent,
      action_type     |-> action_type,
      payload         |-> payload,
      cot_trace       |-> cot_trace ]

\* struct EvaluationResult
EvaluationResult(id, agent_action_id, merged, rs, hits, signals) ==
    [ id              |-> id,
      agent_action_id |-> agent_action_id,
      decision        |-> merged.decision,
      risk_tier       |-> merged.risk_tier,
      reasons         |-> rs,
      rule_hits       |-> hits,
      neural_signals  |-> signals ]

\* SafetyConfig::default().suspicious_keywords
DefaultSuspiciousKeywords ==
    << <<"i","g","n","o","r","e"," ","p","r","e","v","i","o","u","s"," ",
         "i","n","s","t","r","u","c","t","i","o","n","s">>,
       <<"b","y","p","a","s","s">>,
       <<"t","r","a","n","s","f","e","r"," ","a","l","l"," ","f","u","n","d","s">> >>

\* SafetyConfig::default(), main's HeuristicAlignmentChecker::new(false), and
\* Llama Guard off (no API key)
DefaultConfig ==
    [ max_auto_amount     |-> 10000,
      hitl_threshold      |-> 100000,
      suspicious_keywords |-> DefaultSuspiciousKeywords,
      alignment_strict    |-> FALSE,
      llm_enabled         |-> FALSE ]

(***************************************************************************)
(* Strings                                                                 *)
(***************************************************************************)
UpperCase ==
    << "A", "B", "C", "D", "E", "F", "G", "H", "I", "J", "K", "L", "M",
       "N", "O", "P", "Q", "R", "S", "T", "U", "V", "W", "X", "Y", "Z" >>

LowerCase ==
    << "a", "b", "c", "d", "e", "f", "g", "h", "i", "j", "k", "l", "m",
       "n", "o", "p", "q", "r", "s", "t", "u", "v", "w", "x", "y", "z" >>

LowerMap ==
    [ c \in { UpperCase[i] : i \in DOMAIN UpperCase } |->
        LowerCase[CHOOSE i \in DOMAIN UpperCase : UpperCase[i] = c] ]

\* char::to_lowercase on the ASCII range
LowerChar(c) == IF c \in DOMAIN LowerMap THEN LowerMap[c] ELSE c

\* str::to_lowercase
to_lowercase(s) == [i \in 1..Len(s) |-> LowerChar(s[i])]

\* str::contains(pattern): substring search; the empty pattern always matches
contains(text, pat) ==
    \/ Len(pat) = 0
    \/ \E i \in 1..(Len(text) - Len(pat) + 1) :
          /\ text[i] = pat[1]
          /\ SubSeq(text, i, i + Len(pat) - 1) = pat

\* Concatenation of a sequence of strings
RECURSIVE Concat(_)
Concat(ss) == IF ss = <<>> THEN <<>> ELSE Head(ss) \o Concat(Tail(ss))

(***************************************************************************)
(* HITL task lifecycle: domain/hitl.rs, storage/repository.rs,             *)
(* api/handlers.rs submit_hitl_decision                                    *)
(***************************************************************************)

\* Number of submit_hitl_decision requests that may be in flight
MaxRequests == 2

Requests == 1..MaxRequests

\* Uuids of HITL tasks
TaskIds == {"t1", "t2"}

ReviewerOf(r) == <<"reviewer", r>>

\* request.decision as submitted by reviewers
DecisionInputs ==
    { <<"a","p","p","r","o","v","e">>,
      <<"A","P","P","R","O","V","E","D">>,
      <<"R","e","j","e","c","t">>,
      <<"r","e","j","e","c","t","e","d">>,
      <<"m","a","y","b","e">> }

NotesInputs == { None, Some(<<"o","k">>) }

\* impl Display for HitlStatus
HitlStatusDisplay(hitl_status) ==
    CASE hitl_status = "Pending"  -> "pending"
      [] hitl_status = "Approved" -> "approved"
      [] hitl_status = "Rejected" -> "rejected"

\* impl FromStr for HitlStatus, applied to a stored status column
HitlStatusFromStr(s) ==
    CASE s = "pending"  -> Some("Pending")
      [] s = "approved" -> Some("Approved")
      [] s = "rejected" -> Some("Rejected")
      [] OTHER          -> None

\* HitlTask::new
HitlTaskNew(id, agent_action_id, evaluation_id) ==
    [ id              |-> id,
      agent_action_id |-> agent_action_id,
      evaluation_id   |-> evaluation_id,
      status          |-> "Pending",
      reviewer_id     |-> None,
      reviewed_at     |-> None,
      review_notes    |-> None ]

\* The row save_hitl_task binds for a task
HitlTaskRow(task) ==
    [ id              |-> task.id,
      agent_action_id |-> task.agent_action_id,
      evaluation_id   |-> task.evaluation_id,
      status          |-> HitlStatusDisplay(task.status),
      reviewer_id     |-> task.reviewer_id,
      reviewed_at     |-> task.reviewed_at,
      review_notes    |-> task.review_notes ]

\* TryFrom<HitlTaskRow> for HitlTask
HitlTaskFromRow(row) ==
    [ id              |-> row.id,
      agent_action_id |-> row.agent_action_id,
      evaluation_id   |-> row.evaluation_id,
      status          |-> HitlStatusFromStr(row.status).v,
      reviewer_id     |-> row.reviewer_id,
      reviewed_at     |-> row.reviewed_at,
      review_notes    |-> row.review_notes ]

\* ShieldRepository::get_hitl_task: the task, or None for NotFound
get_hitl_task(table, id) ==
    IF id \in DOMAIN table THEN Some(HitlTaskFromRow(table[id])) ELSE None

\* An UPDATE that records the status and the reviewer but not the time
UpdateWithoutReviewedAt(table, id, status, reviewer_id, reviewed_at, notes) ==
    [ t \in DOMAIN table |->
        IF t = id
        THEN [ table[t] EXCEPT !.status       = HitlStatusDisplay(status),
                               !.reviewer_id  = Some(reviewer_id),
                               !.review_notes = notes ]
        ELSE table[t] ]

\* The UPDATE statement of ShieldRepository::update_hitl_task: every row whose
\* id matches is overwritten
UpdateHitlTaskRows(table, id, status, reviewer_id, reviewed_at, notes) ==
    [ t \in DOMAIN table |->
        IF t = id
        THEN [ table[t] EXCEPT !.status       = HitlStatusDisplay(status),
                               !.reviewer_id  = Some(reviewer_id),
                               !.reviewed_at  = Some(reviewed_at),
                               !.review_notes = notes ]
        ELSE table[t] ]

\* The decision validation of submit_hitl_decision
ParseDecision(decision) ==
    LET d == to_lowercase(decision) IN
    CASE d = <<"a","p","p","r","o","v","e">>         -> Some("Approved")
      [] d = <<"a","p","p","r","o","v","e","d">>     -> Some("Approved")
      [] d = <<"r","e","j","e","c","t">>             -> Some("Rejected")
      [] d = <<"r","e","j","e","c","t","e","d">>     -> Some("Rejected")
      [] OTHER                                       -> None

\* A submit_hitl_decision that tests nothing before it updates
AnyStatusAllowed(existing) == TRUE

\* The precondition submit_hitl_decision tests on the task it has read
DecisionAllowed(existing) == existing.status = "Pending"

IdleRequest ==
    [ pc       |-> "idle",
      id       |-> "t1",
      decision |-> <<>>,
      status   |-> None,
      notes    |-> None,
      existing |-> None,
      response |-> [kind |-> "none"] ]

\* save_hitl_task of a task the pipeline has just minted (HitlTask::new with a
\* fresh uuid): the INSERT of evaluate_action
SaveNewHitlTask(t) ==
    /\ t \notin DOMAIN hitl_tasks
    /\ hitl_tasks' =
         [ x \in DOMAIN hitl_tasks \cup {t} |->
             IF x = t
             THEN HitlTaskRow(HitlTaskNew(t, <<"action", t>>, <<"evaluation", t>>))
             ELSE hitl_tasks[x] ]
    /\ UNCHANGED <<reqs, now>>
    /\ UNCHANGED <<evalVars, storeVars, replay, company_members>>

\* submit_hitl_decision up to its first await: validate the decision
SubmitDecision(r, id, decision, notes) ==
    /\ reqs[r].pc = "idle"
    /\ LET status == ParseDecision(decision) IN
       reqs' = [reqs EXCEPT ![r] =
                  IF status.some
                  THEN [ IdleRequest EXCEPT !.pc = "get", !.id = id,
                           !.decision = decision, !.status = status,
                           !.notes = notes ]
                  ELSE [ IdleRequest EXCEPT !.pc = "done", !.id = id,
                           !.decision = decision,
                           !.response = [kind |-> "bad_request",
                                         what |-> "invalid_decision"] ]]
    /\ UNCHANGED <<hitl_tasks, now>>
    /\ UNCHANGED <<evalVars, storeVars, replay, company_members>>

\* "Verify task exists and is pending": get_hitl_task and the status test
GetExisting(r) ==
    /\ reqs[r].pc = "get"
    /\ LET existing == get_hitl_task(hitl_tasks, reqs[r].id) IN
       reqs' = [reqs EXCEPT ![r] =
                  IF ~existing.some
                  THEN [ @ EXCEPT !.pc = "done",
                           !.response = [kind |-> "not_found"] ]
                  ELSE IF ~DecisionAllowed(existing.v)
                  THEN [ @ EXCEPT !.pc = "done", !.existing = existing,
                           !.response = [status |-> HitlStatusDisplay(existing.v.status),
                                         kind   |-> "bad_request",
                                         what   |-> "already"] ]
                  ELSE [ @ EXCEPT !.pc = "update", !.existing = existing ]]
    /\ UNCHANGED <<hitl_tasks, now>>
    /\ UNCHANGED <<evalVars, storeVars, replay, company_members>>

\* update_hitl_task, first await: the UPDATE statement
UpdateTask(r) ==
    /\ reqs[r].pc = "update"
    /\ hitl_tasks' = UpdateHitlTaskRows(hitl_tasks, reqs[r].id, reqs[r].status.v,
                                        ReviewerOf(r), now, reqs[r].notes)
    /\ reqs' = [reqs EXCEPT ![r].pc = "reread"]
    /\ now' = now + 1
    /\ UNCHANGED <<evalVars, storeVars, replay, company_members>>

\* update_hitl_task, second await: re-read the task; then the response
RereadAndRespond(r) ==
    /\ reqs[r].pc = "reread"
    /\ LET updated == get_hitl_task(hitl_tasks, reqs[r].id).v IN
       reqs' = [reqs EXCEPT ![r] =
                  [ @ EXCEPT !.pc = "done",
                      !.response = [status  |-> updated.status,
                                    kind    |-> "ok",
                                    task_id |-> reqs[r].id,
                                    message |-> reqs[r].status.v] ]]
    /\ UNCHANGED <<hitl_tasks, now>>
    /\ UNCHANGED <<evalVars, storeVars, replay, company_members>>

(***************************************************************************)
(* Domain: domain/action.rs, domain/evaluation.rs, config.rs               *)
(***************************************************************************)

\* enum ActionType
ActionTypes ==
    { "GetBalance", "TransferFunds", "PayBill", "GetTransactions", "RequestLoan",
      "AddBeneficiary", "UpdateProfile", "CloseAccount", "RefundTransaction",
      "Unknown" }

\* serde_json::Value, as far as payloads use it
JsonString(s) == [json_type |-> "string", json_value |-> s]

JsonNumber(n) == [json_type |-> "number", json_value |-> n]

\* Value::as_str
as_str(v) == IF v.json_type = "string" THEN Some(v.json_value) ELSE None

\* Value::as_f64
as_f64(v) == IF v.json_type = "number" THEN Some(v.json_value) ELSE None

\* Value::get(key) on a payload: a payload is a function from its keys to
\* values; a payload that is no JSON object has no keys
payload_get(payload, key) ==
    IF key \in DOMAIN payload THEN Some(payload[key]) ELSE None

\* The keys a payload may hold, in the order serde_json's map iterates them
PayloadKeys == <<"amount", "from_account_id", "to_account_id">>

\* AgentAction::extract_amount
extract_amount(act) ==
    IF act.action_type \in {"TransferFunds", "PayBill", "RequestLoan", "RefundTransaction"}
    THEN LET v == payload_get(act.payload, "amount") IN
         IF v.some THEN as_f64(v.v) ELSE None
    ELSE None

(***************************************************************************)
(* Layer 1, input firewall: engine/firewall.rs, engine/llm_guard.rs        *)
(***************************************************************************)

\* enum FirewallOutcome
Clean == [reasons |-> <<>>, kind |-> "Clean"]

Suspicious(reasons) == [reasons |-> reasons, kind |-> "Suspicious"]

Blocked(reasons) == [reasons |-> reasons, kind |-> "Blocked"]

\* FirewallOutcome::is_blocked
is_blocked(o) == o.kind = "Blocked"

\* FirewallOutcome::is_suspicious
is_suspicious(o) == o.kind = "Suspicious"

\* KeywordFirewall::new: the keywords that are always blocked
block_keywords ==
    << <<"i","g","n","o","r","e"," ","a","l","l"," ","p","r","e","v","i","o","u","s"," ",
         "i","n","s","t","r","u","c","t","i","o","n","s">>,
       <<"d","i","s","r","e","g","a","r","d"," ","y","o","u","r"," ",
         "i","n","s","t","r","u","c","t","i","o","n","s">>,
       <<"y","o","u"," ","a","r","e"," ","n","o","w">>,
       <<"n","e","w"," ","p","e","r","s","o","n","a">>,
       <<"j","a","i","l","b","r","e","a","k">>,
       <<"D","A","N"," ","m","o","d","e">> >>

\* A contains_any that lowercases the text but not the keyword
KeywordMatchesExactCase(text_lower, kw) == contains(text_lower, kw)

\* The test KeywordFirewall::contains_any applies to one keyword
KeywordMatches(text_lower, kw) == contains(text_lower, to_lowercase(kw))

\* KeywordFirewall::contains_any
contains_any(text, keywords) ==
    LET text_lower == to_lowercase(text)
        hit(kw) == KeywordMatches(text_lower, kw)
    IN  SelectSeq(keywords, hit)

\* The payload loop of KeywordFirewall::get_scannable_text
RECURSIVE PayloadStrings(_, _)
PayloadStrings(payload, keys) ==
    IF keys = <<>> THEN <<>>
    ELSE LET k == Head(keys)
             s == IF k \in DOMAIN payload THEN as_str(payload[k]) ELSE None
         IN  (IF s.some THEN s.v \o <<" ">> ELSE <<>>)
               \o PayloadStrings(payload, Tail(keys))

\* KeywordFirewall::get_scannable_text
get_scannable_text(act) ==
    act.original_intent \o <<" ">>
      \o (IF act.cot_trace.some THEN act.cot_trace.v \o <<" ">> ELSE <<>>)
      \o PayloadStrings(act.payload, PayloadKeys)

\* impl InputFirewall for KeywordFirewall
KeywordFirewallEvaluate(act, suspicious_keywords) ==
    LET text            == get_scannable_text(act)
        block_hits      == contains_any(text, block_keywords)
        suspicious_hits == contains_any(text, suspicious_keywords)
    IN  IF block_hits # <<>>
        THEN Blocked([i \in 1..Len(block_hits) |->
                        <<"Blocked keyword detected", block_hits[i]>>])
        ELSE IF suspicious_hits # <<>>
        THEN Suspicious([i \in 1..Len(suspicious_hits) |->
                           <<"Suspicious pattern detected", suspicious_hits[i]>>])
        ELSE Clean

\* The categories SyncLlamaGuardFirewall treats as critical
IsCriticalCategory(c) ==
    c \in {"ChildExploitation", "IndiscriminateWeapons", "ViolentCrimes"}

\* What LlamaGuardFirewall::classify may come back with: Err, or a GuardResult
ClassifyResults ==
    { [ok |-> FALSE],
      [ok |-> TRUE, is_safe |-> TRUE,  violated_categories |-> <<>>],
      [ok |-> TRUE, is_safe |-> FALSE, violated_categories |-> <<>>],
      [ok |-> TRUE, is_safe |-> FALSE, violated_categories |-> <<"NonViolentCrimes">>],
      [ok |-> TRUE, is_safe |-> FALSE,
         violated_categories |-> <<"NonViolentCrimes", "ViolentCrimes">>] }

\* A SyncLlamaGuardFirewall that fails closed: a failed classify blocks
LlamaGuardFailsClosed(enabled, classified) ==
    IF ~enabled THEN Clean
    ELSE IF ~classified.ok
    THEN Blocked(<< <<"Llama Guard", "classification failed">> >>)
    ELSE IF classified.is_safe THEN Clean
    ELSE IF \E i \in 1..Len(classified.violated_categories) :
                 IsCriticalCategory(classified.violated_categories[i])
    THEN Blocked([i \in 1..Len(classified.violated_categories) |->
                    <<"Llama Guard", classified.violated_categories[i]>>])
    ELSE Suspicious([i \in 1..Len(classified.violated_categories) |->
                       <<"Llama Guard", classified.violated_categories[i]>>])

\* impl InputFirewall for SyncLlamaGuardFirewall, given what classify returned
LlamaGuardEvaluate(enabled, classified) ==
    IF ~enabled THEN Clean
    ELSE IF ~classified.ok THEN Clean
    ELSE IF classified.is_safe THEN Clean
    ELSE LET cats     == classified.violated_categories
             reasons  == [i \in 1..Len(cats) |-> <<"Llama Guard", cats[i]>>]
             critical == \E i \in 1..Len(cats) : IsCriticalCategory(cats[i])
         IN  IF critical THEN Blocked(reasons) ELSE Suspicious(reasons)

\* main: the firewalls the coordinator's CompositeFirewall holds
Firewalls(cfg) ==
    IF cfg.llm_enabled THEN <<"keyword", "llama_guard">> ELSE <<"keyword">>

\* Dispatch of InputFirewall::evaluate on one firewall of the composite
FirewallEvaluate(fw, act, cfg, classified) ==
    IF fw = "keyword"
    THEN KeywordFirewallEvaluate(act, cfg.suspicious_keywords)
    ELSE LlamaGuardEvaluate(TRUE, classified)

\* A CompositeFirewall that reports Suspicious even with nothing collected
SuspiciousWithoutReasons(all_suspicious_reasons) == Suspicious(all_suspicious_reasons)

\* What CompositeFirewall::evaluate returns after its loop
CompositeResult(all_suspicious_reasons) ==
    IF all_suspicious_reasons = <<>> THEN Clean
    ELSE Suspicious(all_suspicious_reasons)

\* The loop of CompositeFirewall::evaluate
RECURSIVE CompositeLoop(_, _, _, _, _)
CompositeLoop(fws, act, cfg, classified, all_suspicious_reasons) ==
    IF fws = <<>> THEN CompositeResult(all_suspicious_reasons)
    ELSE LET o == FirewallEvaluate(Head(fws), act, cfg, classified) IN
         IF is_blocked(o) THEN Blocked(o.reasons)
         ELSE IF is_suspicious(o)
         THEN CompositeLoop(Tail(fws), act, cfg, classified,
                            all_suspicious_reasons \o o.reasons)
         ELSE CompositeLoop(Tail(fws), act, cfg, classified, all_suspicious_reasons)

\* impl InputFirewall for CompositeFirewall
CompositeFirewallEvaluate(act, cfg, classified) ==
    CompositeLoop(Firewalls(cfg), act, cfg, classified, <<>>)

(***************************************************************************)
(* Layer 2, alignment checker: engine/alignment.rs                         *)
(***************************************************************************)

\* enum AlignmentOutcome
Aligned == [reasons |-> <<>>, kind |-> "Aligned"]

Misaligned(reasons) == [reasons |-> reasons, kind |-> "Misaligned"]

AlignmentUnknown == [reasons |-> <<>>, kind |-> "Unknown"]

\* AlignmentOutcome::is_misaligned
is_misaligned(o) == o.kind = "Misaligned"

BalanceKeywords ==
    << <<"b","a","l","a","n","c","e">>,
       <<"h","o","w"," ","m","u","c","h">>,
       <<"c","h","e","c","k"," ","a","c","c","o","u","n","t">>,
       <<"a","c","c","o","u","n","t"," ","s","t","a","t","u","s">> >>

TransferKeywords ==
    << <<"t","r","a","n","s","f","e","r">>,
       <<"s","e","n","d"," ","m","o","n","e","y">>,
       <<"m","o","v","e"," ","f","u","n","d","s">>,
       <<"w","i","r","e">> >>

BillKeywords ==
    << <<"p","a","y"," ","b","i","l","l">>,
       <<"p","a","y"," ","m","y">>,
       <<"p","a","y","m","e","n","t"," ","t","o">> >>

HistoryKeywords ==
    << <<"t","r","a","n","s","a","c","t","i","o","n">>,
       <<"h","i","s","t","o","r","y">>,
       <<"r","e","c","e","n","t"," ","a","c","t","i","v","i","t","y">>,
       <<"s","t","a","t","e","m","e","n","t">> >>

\* intent_lower.contains(k1) || intent_lower.contains(k2) || ...
ContainsAnyOf(text, keywords) ==
    \E i \in 1..Len(keywords) : contains(text, keywords[i])

\* HeuristicAlignmentChecker::infer_intent_type
infer_intent_type(intent) ==
    LET intent_lower == to_lowercase(intent) IN
    IF ContainsAnyOf(intent_lower, BalanceKeywords) THEN Some("GetBalance")
    ELSE IF ContainsAnyOf(intent_lower, TransferKeywords) THEN Some("TransferFunds")
    ELSE IF ContainsAnyOf(intent_lower, BillKeywords) THEN Some("PayBill")
    ELSE IF ContainsAnyOf(intent_lower, HistoryKeywords) THEN Some("GetTransactions")
    ELSE None

\* A check_action_intent_mismatch without its read-intent, write-action rule
MismatchWithoutReadWriteRule(strict_mode, inferred, actual, intent) ==
    IF actual \in {"CloseAccount", "AddBeneficiary", "RequestLoan"} /\ inferred # actual
    THEN Some(<<"Critical action does not match user intent", actual, intent>>)
    ELSE IF inferred # actual /\ strict_mode
    THEN Some(<<"Inferred intent type does not match action type", inferred, actual>>)
    ELSE None

\* HeuristicAlignmentChecker::check_action_intent_mismatch
check_action_intent_mismatch(strict_mode, inferred, actual, intent) ==
    LET is_read_intent     == inferred \in {"GetBalance", "GetTransactions"}
        is_write_action    == actual \in {"TransferFunds", "PayBill", "CloseAccount"}
        is_critical_action == actual \in {"CloseAccount", "AddBeneficiary", "RequestLoan"}
    IN  IF is_read_intent /\ is_write_action
        THEN Some(<<"User intent suggests read-only operation, but action is", intent, actual>>)
        ELSE IF is_critical_action /\ inferred # actual
        THEN Some(<<"Critical action does not match user intent", actual, intent>>)
        ELSE IF inferred # actual /\ strict_mode
        THEN Some(<<"Inferred intent type does not match action type", inferred, actual>>)
        ELSE None

\* impl AlignmentChecker for HeuristicAlignmentChecker
check_alignment(strict_mode, act) ==
    LET intent   == act.original_intent
        inferred == infer_intent_type(intent)
    IN  IF ~inferred.some
        THEN IF ~strict_mode THEN AlignmentUnknown
             ELSE IF act.action_type \in {"TransferFunds", "PayBill"}
             THEN Misaligned(<< <<"Cannot verify intent for high-risk action",
                                  act.action_type>> >>)
             ELSE AlignmentUnknown
        ELSE LET reason == check_action_intent_mismatch(strict_mode, inferred.v,
                                                        act.action_type, intent)
             IN  IF reason.some THEN Misaligned(<<reason.v>>) ELSE Aligned

(***************************************************************************)
(* Layer 3, policy engine: engine/policy.rs                                *)
(***************************************************************************)

\* The ASCII digits, in order
AsciiDigits == <<"0", "1", "2", "3", "4", "5", "6", "7", "8", "9">>

\* The value of each ASCII digit, as f64's FromStr reads it
DigitMap ==
    [c \in {AsciiDigits[i] : i \in 1..10} |->
        (CHOOSE i \in 1..10 : AsciiDigits[i] = c) - 1]

\* char::is_ascii_digit
is_ascii_digit(c) == c \in DOMAIN DigitMap

\* The characters of s that satisfy is_ascii_digit or are '.'
RECURSIVE KeepDigitsAndDots(_)
KeepDigitsAndDots(s) ==
    IF s = <<>> THEN <<>>
    ELSE IF is_ascii_digit(Head(s)) \/ Head(s) = "."
         THEN <<Head(s)>> \o KeepDigitsAndDots(Tail(s))
         ELSE KeepDigitsAndDots(Tail(s))

\* The characters of s other than ','
RECURSIVE DropCommas(_)
DropCommas(s) ==
    IF s = <<>> THEN <<>>
    ELSE IF Head(s) = "," THEN DropCommas(Tail(s))
         ELSE <<Head(s)>> \o DropCommas(Tail(s))

\* take_while(|c| c.is_ascii_digit() || c == ',' || c == '.')
RECURSIVE TakeNumeric(_)
TakeNumeric(s) ==
    IF s = <<>> THEN <<>>
    ELSE IF is_ascii_digit(Head(s)) \/ Head(s) = "," \/ Head(s) = "."
         THEN <<Head(s)>> \o TakeNumeric(Tail(s))
         ELSE <<>>

\* The value of a string of ASCII digits
RECURSIVE DigitsValue(_)
DigitsValue(s) ==
    IF s = <<>> THEN 0
    ELSE DigitsValue(SubSeq(s, 1, Len(s) - 1)) * 10 + DigitMap[s[Len(s)]]

\* str::parse::<f64> on a string of digits and '.', in cents; digits after
\* the second decimal place are dropped
parse_f64(s) ==
    LET dots   == {i \in 1..Len(s) : s[i] = "."}
        digits == {i \in 1..Len(s) : is_ascii_digit(s[i])}
    IN  IF Cardinality(dots) > 1 \/ digits = {}
           \/ Cardinality(dots) + Cardinality(digits) # Len(s)
        THEN None
        ELSE LET d    == IF dots = {} THEN Len(s) + 1 ELSE CHOOSE i \in dots : TRUE
                 frac == SubSeq(s, d + 1, Len(s))
                 f1   == IF Len(frac) >= 1 THEN DigitMap[frac[1]] ELSE 0
                 f2   == IF Len(frac) >= 2 THEN DigitMap[frac[2]] ELSE 0
             IN  Some(DigitsValue(SubSeq(s, 1, d - 1)) * 100 + f1 * 10 + f2)

\* if let Ok(amount) = s.parse::<f64>() { if amount > 0.0 { return Some(amount) } }
ParsePositive(s) ==
    LET amount == parse_f64(s) IN
    IF amount.some /\ amount.v > 0 THEN amount ELSE None

\* str::find: the index of the first occurrence of pat
find(text, pat) ==
    LET at == {i \in 1..(Len(text) - Len(pat) + 1) :
                 SubSeq(text, i, i + Len(pat) - 1) = pat}
    IN  IF at = {} THEN None
        ELSE Some(CHOOSE i \in at : \A j \in at : i <= j)

\* str::split_whitespace
RECURSIVE split_whitespace(_)
split_whitespace(s) ==
    IF s = <<>> THEN <<>>
    ELSE IF Head(s) = " " THEN split_whitespace(Tail(s))
    ELSE LET sp == find(s, <<" ">>)
             n  == IF sp.some THEN sp.v - 1 ELSE Len(s)
         IN  <<SubSeq(s, 1, n)>> \o split_whitespace(SubSeq(s, n + 1, Len(s)))

financial_verbs ==
    << <<"t","r","a","n","s","f","e","r">>,
       <<"s","e","n","d">>,
       <<"p","a","y">>,
       <<"w","i","r","e">>,
       <<"w","i","t","h","d","r","a","w">> >>

financial_keywords ==
    << <<"t","r","a","n","s","f","e","r">>,
       <<"s","e","n","d">>,
       <<"p","a","y">>,
       <<"w","i","r","e">>,
       <<"w","i","t","h","d","r","a","w">>,
       <<"d","e","p","o","s","i","t">>,
       <<"m","o","v","e"," ","m","o","n","e","y">>,
       <<"m","o","v","e"," ","f","u","n","d","s">>,
       <<"p","a","y","m","e","n","t">>,
       <<"t","r","a","n","s","a","c","t","i","o","n">> >>

\* extract_amount_from_text, pattern 1: "$1,000", "$1000", "$1000.00"
AmountAfterDollar(text) ==
    LET idx == find(text, <<"$">>) IN
    IF ~idx.some THEN None
    ELSE ParsePositive(DropCommas(TakeNumeric(SubSeq(text, idx.v + 1, Len(text)))))

\* extract_amount_from_text, pattern 2: "1000 dollars"
AmountBeforeUnit(text_lower) ==
    LET words == split_whitespace(text_lower)
        units == { <<"d","o","l","l","a","r","s">>, <<"d","o","l","l","a","r">>,
                   <<"u","s","d">> }
        hits  == {i \in 2..Len(words) :
                    /\ words[i] \in units
                    /\ ParsePositive(KeepDigitsAndDots(words[i - 1])).some}
    IN  IF hits = {} THEN None
        ELSE ParsePositive(KeepDigitsAndDots(
                 words[(CHOOSE i \in hits : \A j \in hits : i <= j) - 1]))

\* extract_amount_from_text, pattern 3 for one verb: the first number after it
AmountAfterVerb(text_lower, verb) ==
    LET verb_idx == find(text_lower, verb) IN
    IF ~verb_idx.some THEN None
    ELSE LET after_verb == SubSeq(text_lower, verb_idx.v + Len(verb), Len(text_lower))
             digits     == {i \in 1..Len(after_verb) : is_ascii_digit(after_verb[i])}
         IN  IF digits = {} THEN None
             ELSE LET start   == CHOOSE i \in digits : \A j \in digits : i <= j
                      rest    == SubSeq(after_verb, start, Len(after_verb))
                      run     == TakeNumeric(rest)
                      \* the loop meets a character that ends the number
                      in_loop == IF Len(run) < Len(rest)
                                 THEN ParsePositive(KeepDigitsAndDots(run))
                                 ELSE None
                      \* "number is at end of string"
                      at_end  == ParsePositive(DropCommas(run))
                  IN  IF in_loop.some THEN in_loop ELSE at_end

\* extract_amount_from_text, pattern 3: the verbs in order
RECURSIVE AmountAfterVerbs(_, _)
AmountAfterVerbs(text_lower, verbs) ==
    IF verbs = <<>> THEN None
    ELSE LET a == AmountAfterVerb(text_lower, Head(verbs)) IN
         IF a.some THEN a ELSE AmountAfterVerbs(text_lower, Tail(verbs))

\* ConfigPolicyEngine::extract_amount_from_text
extract_amount_from_text(text) ==
    LET text_lower == to_lowercase(text)
        p1 == AmountAfterDollar(text)
        p2 == AmountBeforeUnit(text_lower)
    IN  IF p1.some THEN p1
        ELSE IF p2.some THEN p2
        ELSE AmountAfterVerbs(text_lower, financial_verbs)

\* struct TriggeredRule
Rule(rule_id, description, suggests_block, requires_hitl) ==
    [ rule_id        |-> rule_id,
      description    |-> description,
      suggests_block |-> suggests_block,
      requires_hitl  |-> requires_hitl ]

\* The threshold rules of check_amount_rules
AmountThresholdRules(cfg, amount) ==
    IF amount > cfg.hitl_threshold
    THEN << Rule("AMOUNT_EXCEEDS_HITL_THRESHOLD",
                 <<"Amount exceeds HITL threshold", amount, cfg.hitl_threshold>>,
                 FALSE, TRUE) >>
    ELSE IF amount > cfg.max_auto_amount
    THEN << Rule("AMOUNT_EXCEEDS_AUTO_LIMIT",
                 <<"Amount exceeds auto-approval limit", amount, cfg.max_auto_amount>>,
                 FALSE, TRUE) >>
    ELSE <<>>

\* A check_amount_rules that has lost its threshold and round-number rules
AmountRulesWithoutLimits(cfg, amount) ==
    IF amount <= 0
    THEN << Rule("AMOUNT_INVALID", <<"Invalid amount", amount>>, TRUE, FALSE) >>
    ELSE <<>>

\* check_amount_rules, once the amount is extracted
AmountRules(cfg, amount) ==
    AmountThresholdRules(cfg, amount)
    \o (IF amount <= 0
        THEN << Rule("AMOUNT_INVALID", <<"Invalid amount", amount>>, TRUE, FALSE) >>
        ELSE <<>>)
    \o (IF amount > 100000 /\ amount % 100 = 0 /\ amount % 100000 = 0
        THEN << Rule("AMOUNT_SUSPICIOUS_ROUND",
                     <<"Suspiciously round amount may indicate automation", amount>>,
                     FALSE, TRUE) >>
        ELSE <<>>)

\* check_amount_rules, given what extract_amount returned
AmountRulesOf(cfg, a) ==
    IF ~a.some
    THEN << Rule("AMOUNT_MISSING", <<"Monetary action missing amount field">>, FALSE, TRUE) >>
    ELSE AmountRules(cfg, a.v)

\* ConfigPolicyEngine::check_amount_rules
check_amount_rules(cfg, act) ==
    IF act.action_type \notin {"TransferFunds", "PayBill"} THEN <<>>
    ELSE AmountRulesOf(cfg, extract_amount(act))

\* check_action_type_rules, ActionType::TransferFunds
TransferRules(act) ==
    LET fromv == payload_get(act.payload, "from_account_id")
        tov   == payload_get(act.payload, "to_account_id")
        from  == IF fromv.some THEN as_str(fromv.v) ELSE None
        to    == IF tov.some THEN as_str(tov.v) ELSE None
    IN  IF from.some /\ from = to
        THEN << Rule("TRANSFER_SAME_ACCOUNT",
                     <<"Transfer source and destination are the same">>, TRUE, FALSE) >>
        ELSE <<>>

\* Option::or
OptionOr(a, b) == IF a.some THEN a ELSE b

\* An Unknown arm that looks at amounts only when a financial keyword is there
UnknownRulesForKeywordsOnly(cfg, has_financial_keyword, detected_amount) ==
    IF ~has_financial_keyword THEN <<>>
    ELSE IF ~detected_amount.some
    THEN << Rule("UNCLASSIFIED_FINANCIAL_INTENT",
                 <<"Unclassified action with financial keywords requires review">>,
                 FALSE, TRUE) >>
    ELSE IF detected_amount.v > cfg.hitl_threshold
    THEN << Rule("UNCLASSIFIED_HIGH_VALUE_TRANSFER",
                 <<"Unclassified financial action exceeds threshold - BLOCKED",
                   detected_amount.v>>, TRUE, FALSE) >>
    ELSE << Rule("UNCLASSIFIED_TRANSFER_NEEDS_REVIEW",
                 <<"Unclassified financial action requires human review",
                   detected_amount.v>>, FALSE, TRUE) >>

\* check_action_type_rules, ActionType::Unknown, once the intent is analysed
UnknownRulesFor(cfg, has_financial_keyword, detected_amount) ==
    IF has_financial_keyword
    THEN IF detected_amount.some
         THEN IF detected_amount.v > cfg.hitl_threshold
              THEN << Rule("UNCLASSIFIED_HIGH_VALUE_TRANSFER",
                           <<"Unclassified financial action exceeds threshold - BLOCKED",
                             detected_amount.v>>, TRUE, FALSE) >>
              ELSE IF detected_amount.v > cfg.max_auto_amount
              THEN << Rule("UNCLASSIFIED_TRANSFER_NEEDS_REVIEW",
                           <<"Unclassified financial action requires human review",
                             detected_amount.v>>, FALSE, TRUE) >>
              ELSE << Rule("UNCLASSIFIED_SMALL_TRANSFER",
                           <<"Unclassified financial action - flagged for monitoring",
                             detected_amount.v>>, FALSE, FALSE) >>
         ELSE << Rule("UNCLASSIFIED_FINANCIAL_INTENT",
                      <<"Unclassified action with financial keywords requires review">>,
                      FALSE, TRUE) >>
    ELSE IF detected_amount.some /\ detected_amount.v > cfg.max_auto_amount
    THEN << Rule("UNCLASSIFIED_AMOUNT_DETECTED",
                 <<"Unclassified action mentions amount - requires review",
                   detected_amount.v>>, FALSE, TRUE) >>
    ELSE <<>>

\* check_action_type_rules, ActionType::Unknown
UnknownRules(cfg, act) ==
    UnknownRulesFor(cfg,
                    ContainsAnyOf(to_lowercase(act.original_intent), financial_keywords),
                    OptionOr(extract_amount_from_text(act.original_intent),
                             extract_amount(act)))

\* A check_action_type_rules without the rules of the high-risk action types
ActionTypeRulesWithoutFixedRules(cfg, act) ==
    CASE act.action_type = "TransferFunds" -> TransferRules(act)
      [] act.action_type = "Unknown" -> UnknownRules(cfg, act)
      [] OTHER -> <<>>

\* ConfigPolicyEngine::check_action_type_rules
check_action_type_rules(cfg, act) ==
    CASE act.action_type = "TransferFunds" -> TransferRules(act)
      [] act.action_type = "AddBeneficiary" ->
            << Rule("ACTION_ADD_BENEFICIARY",
                    <<"Adding new beneficiary requires human approval">>, FALSE, TRUE) >>
      [] act.action_type = "CloseAccount" ->
            << Rule("ACTION_CLOSE_ACCOUNT",
                    <<"Account closure is a critical action requiring review">>,
                    FALSE, TRUE) >>
      [] act.action_type = "UpdateProfile" ->
            << Rule("ACTION_UPDATE_PROFILE",
                    <<"Profile updates should be reviewed">>, FALSE, TRUE) >>
      [] act.action_type = "RequestLoan" ->
            << Rule("ACTION_REQUEST_LOAN",
                    <<"Loan requests require human verification">>, FALSE, TRUE) >>
      [] act.action_type = "RefundTransaction" ->
            << Rule("ACTION_REFUND", <<"Refunds require human approval">>, FALSE, TRUE) >>
      [] act.action_type = "Unknown" -> UnknownRules(cfg, act)
      [] act.action_type \in {"GetBalance", "GetTransactions", "PayBill"} -> <<>>

AnyRule(rules, flag) == \E i \in 1..Len(rules) : rules[i][flag]

\* evaluate_policies, once the rules are collected
PolicyOutcomeOf(all_rules) ==
    IF all_rules = <<>>
    THEN [decision_hint |-> Some("Allow"), triggered_rules |-> <<>>]
    ELSE IF AnyRule(all_rules, "suggests_block")
    THEN [decision_hint |-> Some("Block"), triggered_rules |-> all_rules]
    ELSE IF AnyRule(all_rules, "requires_hitl")
    THEN [decision_hint |-> Some("RequireHitl"), triggered_rules |-> all_rules]
    ELSE [decision_hint |-> Some("Allow"), triggered_rules |-> all_rules]

\* impl PolicyEngine for ConfigPolicyEngine
evaluate_policies(cfg, act) ==
    PolicyOutcomeOf(check_amount_rules(cfg, act) \o check_action_type_rules(cfg, act))

\* PolicyOutcome::strictest_decision
strictest_decision(policy) ==
    IF AnyRule(policy.triggered_rules, "suggests_block") THEN Some("Block")
    ELSE IF AnyRule(policy.triggered_rules, "requires_hitl") THEN Some("RequireHitl")
    ELSE policy.decision_hint

\* PolicyOutcome::rule_ids
rule_ids(policy) ==
    [i \in 1..Len(policy.triggered_rules) |-> policy.triggered_rules[i].rule_id]

\* PolicyOutcome::descriptions
descriptions(policy) ==
    [i \in 1..Len(policy.triggered_rules) |-> policy.triggered_rules[i].description]

(***************************************************************************)
(* Evaluation coordinator: engine/coordinator.rs                           *)
(***************************************************************************)

\* A merge_outcomes that derives the risk tier from the signals alone, not
\* from the decision it has just taken
MergeWithRiskFromSignals(firewall, alignment, policy) ==
    IF is_blocked(firewall)
    THEN [decision |-> "Block", risk_tier |-> "Critical"]
    ELSE IF is_misaligned(alignment)
    THEN [decision |-> "RequireHitl", risk_tier |-> "High"]
    ELSE [ decision  |-> IF strictest_decision(policy) = Some("Block") THEN "Block"
                         ELSE IF strictest_decision(policy) = Some("RequireHitl")
                                 \/ is_suspicious(firewall)
                         THEN "RequireHitl"
                         ELSE "Allow",
           risk_tier |-> IF is_suspicious(firewall) \/ policy.triggered_rules # <<>>
                         THEN "Medium"
                         ELSE "Low" ]

\* A merge_outcomes that consults the policy before the alignment outcome
MergePolicyBeforeAlignment(firewall, alignment, policy) ==
    IF is_blocked(firewall)
    THEN [decision |-> "Block", risk_tier |-> "Critical"]
    ELSE IF strictest_decision(policy) = Some("Block")
    THEN [decision |-> "Block", risk_tier |-> "Critical"]
    ELSE IF is_misaligned(alignment) \/ strictest_decision(policy) = Some("RequireHitl")
            \/ is_suspicious(firewall)
    THEN [decision |-> "RequireHitl", risk_tier |-> "High"]
    ELSE [decision |-> "Allow",
          risk_tier |-> IF policy.triggered_rules # <<>> THEN "Medium" ELSE "Low"]

\* A merge_outcomes that lets a Suspicious firewall pass when the policy allows
MergeIgnoringSuspicion(firewall, alignment, policy) ==
    IF is_blocked(firewall)
    THEN [decision |-> "Block", risk_tier |-> "Critical"]
    ELSE IF is_misaligned(alignment)
    THEN [decision |-> "RequireHitl", risk_tier |-> "High"]
    ELSE IF strictest_decision(policy) = Some("Block")
    THEN [decision |-> "Block", risk_tier |-> "Critical"]
    ELSE IF strictest_decision(policy) = Some("RequireHitl")
    THEN [decision |-> "RequireHitl", risk_tier |-> "High"]
    ELSE [decision |-> "Allow",
          risk_tier |-> IF is_suspicious(firewall) \/ policy.triggered_rules # <<>>
                        THEN "Medium" ELSE "Low"]

\* EvaluationCoordinator::merge_outcomes
merge_outcomes(firewall, alignment, policy) ==
    IF is_blocked(firewall)
    THEN [decision |-> "Block", risk_tier |-> "Critical"]
    ELSE IF is_misaligned(alignment)
    THEN [decision |-> "RequireHitl", risk_tier |-> "High"]
    ELSE LET policy_decision == strictest_decision(policy)
             decision ==
                 IF policy_decision = Some("Block") THEN "Block"
                 ELSE IF policy_decision = Some("RequireHitl") THEN "RequireHitl"
                 ELSE IF is_suspicious(firewall) THEN "RequireHitl"
                 ELSE "Allow"
             risk_tier ==
                 CASE decision = "Block" -> "Critical"
                   [] decision = "RequireHitl" -> "High"
                   [] decision = "Allow" ->
                        IF is_suspicious(firewall) \/ policy.triggered_rules # <<>>
                        THEN "Medium"
                        ELSE "Low"
         IN  [decision |-> decision, risk_tier |-> risk_tier]

\* A task created for every decision other than Allow
HitlTaskUnlessAllowed(decision, task_id, action_id, evaluation_id) ==
    IF decision # "Allow"
    THEN Some(HitlTaskNew(task_id, action_id, evaluation_id))
    ELSE None

\* "Create HITL task if needed"
HitlTaskIfNeeded(decision, task_id, action_id, evaluation_id) ==
    IF decision = "RequireHitl"
    THEN Some(HitlTaskNew(task_id, action_id, evaluation_id))
    ELSE None

\* An evaluate that never returns early
NeverBlocksImmediately(o) == FALSE

\* evaluate's "Immediate block" test: the firewall outcome is the Blocked variant
BlocksImmediately(o) == o.kind = "Blocked"

\* The configurations the process is started with: the default, and the
\* default with Llama Guard on
Configs ==
    { DefaultConfig,
      [DefaultConfig EXCEPT !.llm_enabled = TRUE] }

\* original_intent as submitted by agents
IntentInputs ==
    { <<>>,
      <<"b","a","l","a","n","c","e">>,
      <<"T","r","a","n","s","f","e","r">>,
      <<"5","0","0"," ","d","o","l","l","a","r","s">>,
      <<"T","r","a","n","s","f","e","r"," ","$","5","0","0">>,
      <<"s","e","n","d"," ","$","5",",","0","0","0">>,
      <<"p","a","y"," ","5","0">>,
      <<"J","A","I","L","B","R","E","A","K">>,
      <<"B","a","l","a","n","c","e"," ","j","a","i","l","b","r","e","a","k">> }

CotInputs ==
    { None,
      Some(<<"D","A","N"," ","M","o","d","e">>),
      Some(<<"b","y","p","a","s","s">>) }

\* payload.amount: absent, or a number (cents)
AmountInputs == { None, Some(0), Some(5000), Some(50000), Some(500000) }

\* payload.from_account_id and payload.to_account_id: absent, or two strings
AccountInputs ==
    { None,
      Some(<< <<"c","h","k">>, <<"s","a","v">> >>),
      Some(<< <<"c","h","k">>, <<"c","h","k">> >>),
      Some(<< <<"c","h","k">>, <<"N","e","w"," ","P","e","r","s","o","n","a">> >>) }

\* The payload with the given amount and accounts
MakePayload(amount, accounts) ==
    [ k \in (IF amount.some THEN {"amount"} ELSE {})
            \cup (IF accounts.some THEN {"from_account_id", "to_account_id"} ELSE {}) |->
        CASE k = "amount"          -> JsonNumber(amount.v)
          [] k = "from_account_id" -> JsonString(accounts.v[1])
          [] k = "to_account_id"   -> JsonString(accounts.v[2]) ]

ActionIds == {"a1"}

\* uuid::Uuid::new_v4() for an EvaluationResult
EvaluationIds == {"e1", "e2"}

\* A new uuid collides with no stored row
FreshEvaluationIds == EvaluationIds \ DOMAIN evaluations

FreshTaskIds == TaskIds \ DOMAIN hitl_tasks

\* CompositeFirewall::evaluate reaches the Llama Guard firewall: it is in the
\* chain and the keyword firewall before it did not block
GuardConsulted(act, cfg) ==
    /\ cfg.llm_enabled
    /\ ~is_blocked(KeywordFirewallEvaluate(act, cfg.suspicious_keywords))

\* evaluate_action before a request arrives.  key_stored and db_fault are
\* what the request's save_action met: a row with the action's id, a failing
\* database
IdleHttp ==
    [pc |-> "idle", response |-> [kind |-> "none"], key_stored |-> FALSE,
     db_fault |-> FALSE]

\* What LlamaGuardClient::classify can return to this process: it is called
\* only when Llama Guard is in the firewall chain
ClassifyOutcomes(cfg) == IF cfg.llm_enabled THEN ClassifyResults ELSE {[ok |-> FALSE]}

\* evaluate, entered with an action: nothing has run yet
SubmitAction(act) ==
    /\ pc = "idle"
    /\ action' = Some(act)
    /\ pc' = "firewall"
    /\ UNCHANGED <<config, firewall_outcome, alignment_outcome, policy_outcome,
                   guard_result, eval_reasons, eval_rule_hits, eval_neural_signals, result,
                   invoked>>
    /\ UNCHANGED <<hitlVars, storeVars, replay, company_members>>

\* Layer 1, and the immediate block
RunFirewall ==
    /\ pc = "firewall"
    /\ \E classified \in ClassifyOutcomes(config), eid \in FreshEvaluationIds :
         LET o == CompositeFirewallEvaluate(action.v, config, classified) IN
         /\ firewall_outcome' = Some(o)
         /\ guard_result' = IF GuardConsulted(action.v, config) THEN Some(classified)
                             ELSE None
         /\ invoked' = Append(invoked, "firewall")
         /\ IF BlocksImmediately(o)
            THEN /\ eval_reasons' = eval_reasons \o o.reasons
                 /\ eval_rule_hits' = Append(eval_rule_hits, "FIREWALL_BLOCK")
                 /\ eval_neural_signals' = Append(eval_neural_signals, "firewall_triggered")
                 /\ result' = Some([ evaluation |->
                                       EvaluationResult(eid, action.v.id,
                                         [decision |-> "Block", risk_tier |-> "Critical"],
                                         eval_reasons', eval_rule_hits', eval_neural_signals'),
                                     hitl_task |-> None ])
                 /\ pc' = "done"
            ELSE /\ eval_reasons' = IF is_suspicious(o) THEN eval_reasons \o o.reasons ELSE eval_reasons
                 /\ eval_rule_hits' = IF is_suspicious(o)
                                 THEN Append(eval_rule_hits, "FIREWALL_SUSPICIOUS")
                                 ELSE eval_rule_hits
                 /\ UNCHANGED <<eval_neural_signals, result>>
                 /\ pc' = "alignment"
    /\ UNCHANGED <<config, action, alignment_outcome, policy_outcome>>
    /\ UNCHANGED <<hitlVars, storeVars, replay, company_members>>

\* Layer 2
RunAlignment ==
    /\ pc = "alignment"
    /\ LET o == check_alignment(config.alignment_strict, action.v) IN
       /\ alignment_outcome' = Some(o)
       /\ eval_reasons' = IF is_misaligned(o) THEN eval_reasons \o o.reasons ELSE eval_reasons
       /\ eval_rule_hits' = IF is_misaligned(o)
                       THEN Append(eval_rule_hits, "ALIGNMENT_MISALIGNED")
                       ELSE eval_rule_hits
    /\ invoked' = Append(invoked, "alignment")
    /\ pc' = "policy"
    /\ UNCHANGED <<config, action, firewall_outcome, policy_outcome, guard_result,
                   eval_neural_signals, result>>
    /\ UNCHANGED <<hitlVars, storeVars, replay, company_members>>

\* Layer 3, the merge, and the result
RunPolicyAndMerge ==
    /\ pc = "policy"
    /\ \E eid \in FreshEvaluationIds, tid \in FreshTaskIds :
         LET o      == evaluate_policies(config, action.v)
             merged == merge_outcomes(firewall_outcome.v, alignment_outcome.v, o)
         IN  /\ policy_outcome' = Some(o)
             /\ eval_reasons' = eval_reasons \o descriptions(o)
             /\ eval_rule_hits' = eval_rule_hits \o rule_ids(o)
             /\ result' = Some([ evaluation |->
                                   EvaluationResult(eid, action.v.id, merged,
                                                    eval_reasons', eval_rule_hits', eval_neural_signals),
                                 hitl_task |->
                                   HitlTaskIfNeeded(merged.decision, tid, action.v.id, eid) ])
    /\ invoked' = Append(invoked, "policy")
    /\ pc' = "done"
    /\ UNCHANGED <<config, action, firewall_outcome, alignment_outcome, guard_result,
                   eval_neural_signals>>
    /\ UNCHANGED <<hitlVars, storeVars, replay, company_members>>

\* An evaluate whose reasons and rule_hits outlive the call, as they would if
\* they were fields of the coordinator
EvaluateEndsKeepingReasons ==
    /\ pc = "done"
    /\ pc' = "idle"
    /\ action' = None
    /\ firewall_outcome' = None
    /\ alignment_outcome' = None
    /\ policy_outcome' = None
    /\ guard_result' = None
    /\ result' = None
    /\ eval_neural_signals' = <<>>
    /\ invoked' = <<>>
    /\ UNCHANGED <<config, eval_reasons, eval_rule_hits>>

\* evaluate is over: its locals are dropped, the coordinator keeps nothing
EvaluateEnds ==
    /\ pc = "done"
    /\ pc' = "idle"
    /\ action' = None
    /\ firewall_outcome' = None
    /\ alignment_outcome' = None
    /\ policy_outcome' = None
    /\ guard_result' = None
    /\ result' = None
    /\ eval_reasons' = <<>>
    /\ eval_rule_hits' = <<>>
    /\ eval_neural_signals' = <<>>
    /\ invoked' = <<>>
    /\ UNCHANGED config

\* The CoordinatorResult has been returned to a caller that keeps nothing
Return ==
    /\ EvaluateEnds
    /\ UNCHANGED <<hitlVars, storeVars, replay, company_members>>

Init ==
    /\ config \in Configs
    /\ pc = "idle"
    /\ action = None
    /\ firewall_outcome = None
    /\ alignment_outcome = None
    /\ policy_outcome = None
    /\ guard_result = None
    /\ result = None
    /\ eval_reasons = <<>>
    /\ eval_rule_hits = <<>>
    /\ eval_neural_signals = <<>>
    /\ invoked = <<>>
    /\ hitl_tasks = <<>>
    /\ reqs = [r \in Requests |-> IdleRequest]
    /\ now = 1
    /\ agent_actions = <<>>
    /\ evaluations = <<>>
    /\ http = IdleHttp
    /\ replay = None
    /\ company_members = <<>>

Next ==
    \/ \E i \in ActionIds, ty \in ActionTypes, intent \in IntentInputs, cot \in CotInputs,
          amount \in AmountInputs, accounts \in AccountInputs :
          SubmitAction(AgentAction(i, intent, ty, MakePayload(amount, accounts), cot))
    \/ RunFirewall
    \/ RunAlignment
    \/ RunPolicyAndMerge
    \/ Return

\* The evaluation pipeline of one coordinator
Spec == Init /\ [][Next]_vars

\* The state of the review queue's specifications: the coordinator is idle
\* under the deployed configuration, the store is empty
InitHitl ==
    /\ config = DefaultConfig
    /\ pc = "idle"
    /\ action = None
    /\ firewall_outcome = None
    /\ alignment_outcome = None
    /\ policy_outcome = None
    /\ guard_result = None
    /\ result = None
    /\ eval_reasons = <<>>
    /\ eval_rule_hits = <<>>
    /\ eval_neural_signals = <<>>
    /\ invoked = <<>>
    /\ hitl_tasks = <<>>
    /\ reqs = [r \in Requests |-> IdleRequest]
    /\ now = 1
    /\ agent_actions = <<>>
    /\ evaluations = <<>>
    /\ http = IdleHttp
    /\ replay = None
    /\ company_members = <<>>

NextHitl ==
    \/ \E t \in TaskIds : SaveNewHitlTask(t)
    \/ \E r \in Requests, id \in TaskIds, d \in DecisionInputs, n \in NotesInputs :
          SubmitDecision(r, id, d, n)
    \/ \E r \in Requests : GetExisting(r)
    \/ \E r \in Requests : UpdateTask(r)
    \/ \E r \in Requests : RereadAndRespond(r)

\* The HITL review queue under concurrent reviewers
SpecHitl == InitHitl /\ [][NextHitl]_vars

\* One request at a time: a request starts only when no other is in flight
NoneInFlight == \A r \in Requests : reqs[r].pc \in {"idle", "done"}

\* submit_hitl_decision called when no other decide call is running
SubmitDecisionAlone(r, id, decision, notes) ==
    /\ NoneInFlight
    /\ SubmitDecision(r, id, decision, notes)

NextHitlSerial ==
    \/ \E t \in TaskIds : SaveNewHitlTask(t)
    \/ \E r \in Requests, id \in TaskIds, d \in DecisionInputs, n \in NotesInputs :
          SubmitDecisionAlone(r, id, d, n)
    \/ \E r \in Requests : GetExisting(r)
    \/ \E r \in Requests : UpdateTask(r)
    \/ \E r \in Requests : RereadAndRespond(r)

\* The HITL review queue with non-overlapping decide calls
SpecHitlSerial == InitHitl /\ [][NextHitlSerial]_vars

\* Actions an agent submits more than once
ReplayInputs ==
    { AgentAction("a1", <<"b","a","l","a","n","c","e">>, "GetBalance",
                  MakePayload(None, None), None),
      AgentAction("a1", <<"b","a","l","a","n","c","e">>, "TransferFunds",
                  MakePayload(Some(5000), Some(<< <<"c","h","k">>, <<"c","h","k">> >>)), None),
      AgentAction("a1", <<"T","r","a","n","s","f","e","r"," ","$","5","0","0">>,
                  "TransferFunds",
                  MakePayload(Some(50000), Some(<< <<"c","h","k">>, <<"s","a","v">> >>)), None),
      AgentAction("a1", <<>>, "GetBalance", MakePayload(None, None),
                  Some(<<"b","y","p","a","s","s">>)) }

\* The CoordinatorResult has been returned to a caller that remembers the
\* first evaluation it saw: the action, Llama Guard's verdict, the result
ReturnObserved ==
    /\ EvaluateEnds
    /\ replay' = IF replay.some THEN replay
                  ELSE Some([ action       |-> action.v,
                              guard_result |-> guard_result,
                              evaluation   |-> result.v.evaluation ])
    /\ UNCHANGED <<hitlVars, storeVars, company_members>>

NextReplay ==
    \/ \E act \in ReplayInputs : SubmitAction(act)
    \/ RunFirewall
    \/ RunAlignment
    \/ RunPolicyAndMerge
    \/ ReturnObserved

\* evaluate called again and again by one caller
SpecReplay == Init /\ [][NextReplay]_vars

(***************************************************************************)
(* api/handlers.rs evaluate_action and the INSERTs of storage/repository.rs *)
(***************************************************************************)

\* An INSERT OR REPLACE: a row with the same key is no obstacle
InsertOrReplaceSucceeds(table, id, db_ok) == db_ok

\* INSERT INTO a table whose id is its PRIMARY KEY: the statement fails when
\* the database fails or a row with that id exists
InsertSucceeds(table, id, db_ok) == db_ok /\ id \notin DOMAIN table

\* The table after a successful INSERT
InsertRow(table, id, row) ==
    [x \in DOMAIN table \cup {id} |-> IF x = id THEN row ELSE table[x]]

\* ShieldError::Database as into_response renders it, from the save that failed
DatabaseError(during) ==
    [kind |-> "server_error", during |-> during, code |-> "DATABASE_ERROR"]

\* Json(EvaluateActionResponse {evaluation, hitl_task_id})
EvaluateActionResponse(evaluation, hitl_task_id) ==
    [kind |-> "ok", evaluation |-> evaluation, hitl_task_id |-> hitl_task_id]

\* An evaluate_action that persists no task
NoHitlTaskToSave(res) == None

\* "if let Some(ref task) = result.hitl_task"
HitlTaskToSave(res) == res.hitl_task

\* An evaluate_action that stores the evaluation before the action
SaveActionAfterEvaluation ==
    /\ pc = "done"
    /\ http.pc = "idle"
    /\ \E db_ok \in BOOLEAN :
         /\ evaluations' = InsertRow(evaluations, result.v.evaluation.id,
                                     result.v.evaluation)
         /\ IF InsertSucceeds(agent_actions, action.v.id, db_ok)
            THEN /\ agent_actions' = InsertRow(agent_actions, action.v.id, action.v)
                 /\ http' = [IdleHttp EXCEPT !.pc = IF HitlTaskToSave(result.v).some
                                                    THEN "save_hitl_task"
                                                    ELSE "save_evaluation"]
            ELSE /\ UNCHANGED agent_actions
                 /\ http' = [IdleHttp EXCEPT !.pc = "responded",
                                !.response = DatabaseError("save_action"),
                                !.key_stored = action.v.id \in DOMAIN agent_actions,
                                !.db_fault = ~db_ok]
    /\ UNCHANGED <<evalVars, hitlVars, replay, company_members>>

\* An evaluate_action that goes on to save the evaluation when save_action
\* has failed
SaveActionIgnoringFailure ==
    /\ pc = "done"
    /\ http.pc = "idle"
    /\ \E db_ok \in BOOLEAN :
         /\ agent_actions' = IF InsertSucceeds(agent_actions, action.v.id, db_ok)
                              THEN InsertRow(agent_actions, action.v.id, action.v)
                              ELSE agent_actions
         /\ http' = [IdleHttp EXCEPT !.pc = "save_evaluation"]
    /\ UNCHANGED <<evaluations, evalVars, hitlVars, replay, company_members>>

\* evaluate_action after coordinator.evaluate: save_action(&action).await?
SaveAction ==
    /\ pc = "done"
    /\ http.pc = "idle"
    /\ \E db_ok \in BOOLEAN :
         IF InsertSucceeds(agent_actions, action.v.id, db_ok)
         THEN /\ agent_actions' = InsertRow(agent_actions, action.v.id, action.v)
              /\ http' = [IdleHttp EXCEPT !.pc = "save_evaluation"]
         ELSE /\ UNCHANGED agent_actions
              /\ http' = [IdleHttp EXCEPT !.pc = "responded",
                             !.response = DatabaseError("save_action"),
                             !.key_stored = action.v.id \in DOMAIN agent_actions,
                             !.db_fault = ~db_ok]
    /\ UNCHANGED <<evaluations, evalVars, hitlVars, replay, company_members>>

\* save_evaluation(&result.evaluation).await?; with no task to save the
\* response follows without another await
SaveEvaluation ==
    /\ http.pc = "save_evaluation"
    /\ \E db_ok \in BOOLEAN :
         IF InsertSucceeds(evaluations, result.v.evaluation.id, db_ok)
         THEN /\ evaluations' = InsertRow(evaluations, result.v.evaluation.id,
                                          result.v.evaluation)
              /\ http' = IF HitlTaskToSave(result.v).some
                          THEN [http EXCEPT !.pc = "save_hitl_task"]
                          ELSE [http EXCEPT !.pc = "responded",
                                  !.response = EvaluateActionResponse(result.v.evaluation,
                                                                      None)]
         ELSE /\ UNCHANGED evaluations
              /\ http' = [http EXCEPT !.pc = "responded",
                             !.response = DatabaseError("save_evaluation")]
    /\ UNCHANGED <<agent_actions, evalVars, hitlVars, replay, company_members>>

\* save_hitl_task(task).await?, then the response
SaveHitlTask ==
    /\ http.pc = "save_hitl_task"
    /\ LET task == HitlTaskToSave(result.v).v IN
       \E db_ok \in BOOLEAN :
         IF InsertSucceeds(hitl_tasks, task.id, db_ok)
         THEN /\ hitl_tasks' = InsertRow(hitl_tasks, task.id, HitlTaskRow(task))
              /\ http' = [http EXCEPT !.pc = "responded",
                             !.response = EvaluateActionResponse(result.v.evaluation,
                                                                 Some(task.id))]
         ELSE /\ UNCHANGED hitl_tasks
              /\ http' = [http EXCEPT !.pc = "responded",
                             !.response = DatabaseError("save_hitl_task")]
    /\ UNCHANGED <<agent_actions, evaluations, reqs, now, evalVars, replay, company_members>>

\* The response has been sent; the handler's locals are dropped
HandlerEnds ==
    /\ http.pc = "responded"
    /\ EvaluateEnds
    /\ http' = IdleHttp
    /\ UNCHANGED <<agent_actions, evaluations, hitlVars, replay, company_members>>

\* The requests agents send: three actions, each under two ids
HandlerInputs ==
    { AgentAction(i, intent_ty[1], intent_ty[2], MakePayload(None, accounts), None) :
        i \in {"a1", "a2"},
        intent_ty \in { << <<"b","a","l","a","n","c","e">>, "GetBalance" >>,
                        << <<"b","a","l","a","n","c","e">>, "TransferFunds" >>,
                        << <<"J","A","I","L","B","R","E","A","K">>, "GetBalance" >> },
        accounts \in { Some(<< <<"c","h","k">>, <<"c","h","k">> >>) } }

NextHandler ==
    \/ \E act \in HandlerInputs : SubmitAction(act)
    \/ RunFirewall
    \/ RunAlignment
    \/ RunPolicyAndMerge
    \/ SaveAction
    \/ SaveEvaluation
    \/ SaveHitlTask
    \/ HandlerEnds

\* POST /v1/actions/evaluate, one request at a time
SpecHandler == Init /\ [][NextHandler]_vars

\* An evaluate_action request that has not arrived yet
IdleEvaluate ==
    [pc |-> "idle", action |-> None, result |-> None, response |-> [kind |-> "none"]]

\* The (decision, risk_tier) pairs coordinator.evaluate can return
MergedInputs ==
    { [decision |-> "Allow", risk_tier |-> "Low"],
      [decision |-> "RequireHitl", risk_tier |-> "High"],
      [decision |-> "Block", risk_tier |-> "Critical"] }

\* The store is empty and no evaluate_action request has arrived
InitStore ==
    /\ config = DefaultConfig
    /\ pc = "idle"
    /\ action = None
    /\ firewall_outcome = None
    /\ alignment_outcome = None
    /\ policy_outcome = None
    /\ guard_result = None
    /\ result = None
    /\ eval_reasons = <<>>
    /\ eval_rule_hits = <<>>
    /\ eval_neural_signals = <<>>
    /\ invoked = <<>>
    /\ hitl_tasks = <<>>
    /\ reqs = [r \in Requests |-> IdleEvaluate]
    /\ now = 1
    /\ agent_actions = <<>>
    /\ evaluations = <<>>
    /\ http = IdleHttp
    /\ replay = None
    /\ company_members = <<>>

\* evaluate_action of request r up to its first await: coordinator.evaluate
\* has returned `merged` for `act`, under uuids no other request holds
EvaluateReturns(r, act, merged) ==
    /\ reqs[r].pc = "idle"
    /\ reqs' = [reqs EXCEPT ![r] =
                 [ pc       |-> "save_action",
                   action   |-> Some(act),
                   result   |-> Some([ evaluation |->
                                         EvaluationResult(<<"evaluation", r>>, act.id,
                                                          merged, <<>>, <<>>, <<>>),
                                       hitl_task |->
                                         HitlTaskIfNeeded(merged.decision, <<"task", r>>,
                                                          act.id, <<"evaluation", r>>) ]),
                   response |-> [kind |-> "none"] ]]
    /\ UNCHANGED <<hitl_tasks, now, evalVars, storeVars, replay, company_members>>

\* Request r: save_action(&action).await?
RequestSavesAction(r) ==
    /\ reqs[r].pc = "save_action"
    /\ \E db_ok \in BOOLEAN :
         IF InsertSucceeds(agent_actions, reqs[r].action.v.id, db_ok)
         THEN /\ agent_actions' = InsertRow(agent_actions, reqs[r].action.v.id,
                                            reqs[r].action.v)
              /\ reqs' = [reqs EXCEPT ![r].pc = "save_evaluation"]
         ELSE /\ UNCHANGED agent_actions
              /\ reqs' = [reqs EXCEPT ![r].pc = "responded",
                                      ![r].response = DatabaseError("save_action")]
    /\ UNCHANGED <<evaluations, http, hitl_tasks, now, evalVars, replay, company_members>>

\* Request r: save_evaluation(&result.evaluation).await?
RequestSavesEvaluation(r) ==
    /\ reqs[r].pc = "save_evaluation"
    /\ \E db_ok \in BOOLEAN :
         IF InsertSucceeds(evaluations, reqs[r].result.v.evaluation.id, db_ok)
         THEN /\ evaluations' = InsertRow(evaluations, reqs[r].result.v.evaluation.id,
                                          reqs[r].result.v.evaluation)
              /\ reqs' = IF HitlTaskToSave(reqs[r].result.v).some
                          THEN [reqs EXCEPT ![r].pc = "save_hitl_task"]
                          ELSE [reqs EXCEPT ![r].pc = "responded",
                                  ![r].response =
                                     EvaluateActionResponse(reqs[r].result.v.evaluation,
                                                            None)]
         ELSE /\ UNCHANGED evaluations
              /\ reqs' = [reqs EXCEPT ![r].pc = "responded",
                                      ![r].response = DatabaseError("save_evaluation")]
    /\ UNCHANGED <<agent_actions, http, hitl_tasks, now, evalVars, replay, company_members>>

\* Request r: save_hitl_task(task).await?, then the response
RequestSavesHitlTask(r) ==
    /\ reqs[r].pc = "save_hitl_task"
    /\ \E db_ok \in BOOLEAN :
         IF InsertSucceeds(hitl_tasks, HitlTaskToSave(reqs[r].result.v).v.id, db_ok)
         THEN /\ hitl_tasks' = InsertRow(hitl_tasks,
                                        HitlTaskToSave(reqs[r].result.v).v.id,
                                        HitlTaskRow(HitlTaskToSave(reqs[r].result.v).v))
              /\ reqs' = [reqs EXCEPT ![r].pc = "responded",
                            ![r].response =
                               EvaluateActionResponse(
                                   reqs[r].result.v.evaluation,
                                   Some(HitlTaskToSave(reqs[r].result.v).v.id))]
         ELSE /\ UNCHANGED hitl_tasks
              /\ reqs' = [reqs EXCEPT ![r].pc = "responded",
                                      ![r].response = DatabaseError("save_hitl_task")]
    /\ UNCHANGED <<now, evalVars, storeVars, replay, company_members>>

NextStore ==
    \/ \E r \in Requests, i \in {"a1", "a2"}, merged \in MergedInputs :
          EvaluateReturns(r, AgentAction(i, <<>>, "GetBalance", MakePayload(None, None),
                                         None), merged)
    \/ \E r \in Requests : RequestSavesAction(r)
    \/ \E r \in Requests : RequestSavesEvaluation(r)
    \/ \E r \in Requests : RequestSavesHitlTask(r)

\* POST /v1/actions/evaluate, requests in flight together; each request's
\* saves interleave with the others' at the awaits
SpecStore == InitStore /\ [][NextStore]_vars

(***************************************************************************)
(* Company members: api/handlers.rs update_member_role and                 *)
(* remove_company_member, over the company_members table                   *)
(***************************************************************************)

\* The users of the company (claims.sub of callers, user_id of targets)
Users == {"u1", "u2"}

\* enum CompanyRole
CompanyRoles == {"Owner", "Admin", "Member", "Viewer"}

\* A member request that has not arrived yet
IdleMember ==
    [ pc |-> "idle", response |-> [kind |-> "none"], op |-> "none",
      caller |-> "u1", target |-> "u1", role |-> "Owner", member_role |-> "Owner" ]

\* `members.iter().filter(|m| m.role == CompanyRole::Owner).count()`
owner_count(members) == Cardinality({u \in DOMAIN members : members[u] = "Owner"})

\* A company with its members, at least one of them an owner, and no request
\* in progress
InitMembers ==
    /\ config = DefaultConfig
    /\ pc = "idle"
    /\ action = None
    /\ firewall_outcome = None
    /\ alignment_outcome = None
    /\ policy_outcome = None
    /\ guard_result = None
    /\ result = None
    /\ eval_reasons = <<>>
    /\ eval_rule_hits = <<>>
    /\ eval_neural_signals = <<>>
    /\ invoked = <<>>
    /\ hitl_tasks = <<>>
    /\ reqs = [r \in Requests |-> IdleMember]
    /\ now = 1
    /\ agent_actions = <<>>
    /\ evaluations = <<>>
    /\ http = IdleHttp
    /\ replay = None
    /\ company_members \in { [u \in Users |-> IF u = "u1" THEN "Owner" ELSE second] :
                                second \in {"Owner", "Admin"} }

\* update_member_role or remove_company_member is called: the caller is
\* claims.sub, the target and the new role come from the path and the body
MemberRequestArrives(r, op, caller, target, role) ==
    /\ reqs[r].pc = "idle"
    /\ reqs' = [reqs EXCEPT ![r] =
                 [IdleMember EXCEPT !.pc = "verify", !.op = op, !.caller = caller,
                                    !.target = target, !.role = role]]
    /\ UNCHANGED <<hitl_tasks, now, evalVars, storeVars, replay, company_members>>

\* First await of both handlers: get_company_member(company_id, &claims.sub)
\* and the test of the caller's role
VerifyCaller(r) ==
    /\ reqs[r].pc = "verify"
    /\ reqs' = [reqs EXCEPT ![r] =
         IF reqs[r].caller \notin DOMAIN company_members
         THEN [@ EXCEPT !.pc = "done", !.response = [kind |-> "forbidden"]]
         ELSE IF reqs[r].op = "update_member_role"
         THEN IF company_members[reqs[r].caller] # "Owner"
              THEN [@ EXCEPT !.pc = "done", !.response = [kind |-> "forbidden"]]
              ELSE IF reqs[r].target = reqs[r].caller /\ reqs[r].role # "Owner"
              THEN [@ EXCEPT !.pc = "count"]
              ELSE [@ EXCEPT !.pc = "write"]
         ELSE IF company_members[reqs[r].caller] \notin {"Owner", "Admin"}
              THEN [@ EXCEPT !.pc = "done", !.response = [kind |-> "forbidden"]]
              ELSE [@ EXCEPT !.pc = "target",
                             !.member_role = company_members[reqs[r].caller]]]
    /\ UNCHANGED <<hitl_tasks, now, evalVars, storeVars, replay, company_members>>

\* remove_company_member: get_company_member(company_id, &user_id) and the
\* tests on the target's role
GetTarget(r) ==
    /\ reqs[r].pc = "target"
    /\ reqs' = [reqs EXCEPT ![r] =
         IF reqs[r].target \notin DOMAIN company_members
         THEN [@ EXCEPT !.pc = "done", !.response = [kind |-> "not_found"]]
         ELSE IF company_members[reqs[r].target] = "Owner" /\ reqs[r].member_role # "Owner"
         THEN [@ EXCEPT !.pc = "done", !.response = [kind |-> "forbidden"]]
         ELSE IF reqs[r].target = reqs[r].caller
                 /\ company_members[reqs[r].target] = "Owner"
         THEN [@ EXCEPT !.pc = "count"]
         ELSE [@ EXCEPT !.pc = "write"]]
    /\ UNCHANGED <<hitl_tasks, now, evalVars, storeVars, replay, company_members>>

\* The last-owner test of both handlers: list_company_members and owner_count
CountOwners(r) ==
    /\ reqs[r].pc = "count"
    /\ reqs' = [reqs EXCEPT ![r] =
         IF owner_count(company_members) <= 1
         THEN [@ EXCEPT !.pc = "done", !.response = [kind |-> "bad_request"]]
         ELSE [@ EXCEPT !.pc = "write"]]
    /\ UNCHANGED <<hitl_tasks, now, evalVars, storeVars, replay, company_members>>

\* repository.update_member_role (UPDATE .. SET role) or
\* repository.remove_company_member (DELETE); no row affected is NotFound
WriteMember(r) ==
    /\ reqs[r].pc = "write"
    /\ IF reqs[r].target \notin DOMAIN company_members
       THEN /\ UNCHANGED company_members
            /\ reqs' = [reqs EXCEPT ![r].pc = "done",
                                    ![r].response = [kind |-> "not_found"]]
       ELSE IF reqs[r].op = "update_member_role"
       THEN /\ company_members' = [company_members EXCEPT ![reqs[r].target] = reqs[r].role]
            /\ reqs' = [reqs EXCEPT ![r].pc = "reread"]
       ELSE /\ company_members' = [u \in DOMAIN company_members \ {reqs[r].target} |->
                                     company_members[u]]
            /\ reqs' = [reqs EXCEPT ![r].pc = "done",
                                    ![r].response = [kind |-> "no_content"]]
    /\ UNCHANGED <<hitl_tasks, now, evalVars, storeVars, replay>>

\* update_member_role: get_company_member(company_id, &user_id) for the
\* response
RereadMember(r) ==
    /\ reqs[r].pc = "reread"
    /\ reqs' = [reqs EXCEPT ![r].pc = "done",
                            ![r].response =
                               IF reqs[r].target \in DOMAIN company_members
                               THEN [kind |-> "ok"]
                               ELSE [kind |-> "not_found"]]
    /\ UNCHANGED <<hitl_tasks, now, evalVars, storeVars, replay, company_members>>

NextMembers ==
    \/ \E r \in Requests, caller \in Users, target \in Users, role \in CompanyRoles :
          MemberRequestArrives(r, "update_member_role", caller, target, role)
    \/ \E r \in Requests, caller \in Users, target \in Users :
          MemberRequestArrives(r, "remove_company_member", caller, target, "Owner")
    \/ \E r \in Requests : VerifyCaller(r)
    \/ \E r \in Requests : GetTarget(r)
    \/ \E r \in Requests : CountOwners(r)
    \/ \E r \in Requests : WriteMember(r)
    \/ \E r \in Requests : RereadMember(r)

\* Member requests in flight together, interleaving at their awaits
SpecMembers == InitMembers /\ [][NextMembers]_vars

\* FirewallOutcome values merge_outcomes may be given
FirewallOutcomeInputs ==
    { Clean, Suspicious(<< <<"Suspicious pattern detected", "bypass">> >>),
      Blocked(<< <<"Blocked keyword detected", "jailbreak">> >>) }

\* AlignmentOutcome values merge_outcomes may be given
AlignmentOutcomeInputs == { Aligned, Misaligned(<<"mismatch">>), AlignmentUnknown }

\* TriggeredRule values: informational, requiring review, suggesting a block
RuleInputs ==
    { Rule("INFO", "informational", FALSE, FALSE),
      Rule("HITL", "needs review", FALSE, TRUE),
      Rule("BLOCK", "forbidden", TRUE, FALSE) }

\* PolicyOutcome values merge_outcomes may be given: any hint with up to two
\* triggered rules
PolicyOutcomeInputs ==
    { [decision_hint |-> h, triggered_rules |-> rs] :
        h \in {None, Some("Allow"), Some("RequireHitl"), Some("Block")},
        rs \in {<<>>} \cup {<<r>> : r \in RuleInputs}
               \cup {<<r1, r2>> : r1 \in RuleInputs, r2 \in RuleInputs} }

\* merge_outcomes called on three outcomes
MergeCall(firewall, alignment, policy) ==
    /\ pc = "idle"
    /\ firewall_outcome' = Some(firewall)
    /\ alignment_outcome' = Some(alignment)
    /\ policy_outcome' = Some(policy)
    /\ result' = Some(merge_outcomes(firewall, alignment, policy))
    /\ pc' = "merged"
    /\ UNCHANGED <<config, action, guard_result, eval_reasons, eval_rule_hits,
                   eval_neural_signals, invoked>>
    /\ UNCHANGED <<hitlVars, storeVars, replay, company_members>>

\* The pair has been returned to the caller
MergeReturn ==
    /\ pc = "merged"
    /\ pc' = "idle"
    /\ firewall_outcome' = None
    /\ alignment_outcome' = None
    /\ policy_outcome' = None
    /\ result' = None
    /\ UNCHANGED <<config, action, guard_result, eval_reasons, eval_rule_hits,
                   eval_neural_signals, invoked>>
    /\ UNCHANGED <<hitlVars, storeVars, replay, company_members>>

NextMerge ==
    \/ \E f \in FirewallOutcomeInputs, a \in AlignmentOutcomeInputs,
          p \in PolicyOutcomeInputs : MergeCall(f, a, p)
    \/ MergeReturn

\* merge_outcomes as a function of its three arguments
SpecMerge == InitHitl /\ [][NextMerge]_vars

\* safety.max_auto_amount and safety.hitl_threshold as an operator may set
\* them: SafetyConfig takes any two reals, in any order and of any sign
ThresholdInputs ==
    { <<10000, 100000>>, <<100000, 10000>>, <<10000, -100>>, <<-100, 100000>> }

\* payload.amount as an agent may send it: absent, or any number
PolicyAmountInputs == { None, Some(-500), Some(0), Some(5000), Some(50000), Some(500000) }

\* The process is started with some thresholds; no request is in progress
InitPolicy ==
    /\ config \in { [DefaultConfig EXCEPT !.max_auto_amount = th[1],
                                          !.hitl_threshold  = th[2]] :
                       th \in ThresholdInputs }
    /\ pc = "idle"
    /\ action = None
    /\ firewall_outcome = None
    /\ alignment_outcome = None
    /\ policy_outcome = None
    /\ guard_result = None
    /\ result = None
    /\ eval_reasons = <<>>
    /\ eval_rule_hits = <<>>
    /\ eval_neural_signals = <<>>
    /\ invoked = <<>>
    /\ hitl_tasks = <<>>
    /\ reqs = [r \in Requests |-> IdleRequest]
    /\ now = 1
    /\ agent_actions = <<>>
    /\ evaluations = <<>>
    /\ http = IdleHttp
    /\ replay = None
    /\ company_members = <<>>

\* PolicyEngine::evaluate called on an action
PolicyCall(act) ==
    /\ pc = "idle"
    /\ action' = Some(act)
    /\ policy_outcome' = Some(evaluate_policies(config, act))
    /\ pc' = "evaluated"
    /\ UNCHANGED <<config, firewall_outcome, alignment_outcome, guard_result,
                   eval_reasons, eval_rule_hits, eval_neural_signals, result, invoked>>
    /\ UNCHANGED <<hitlVars, storeVars, replay, company_members>>

\* The PolicyOutcome has been returned to the caller
PolicyReturn ==
    /\ pc = "evaluated"
    /\ pc' = "idle"
    /\ action' = None
    /\ policy_outcome' = None
    /\ UNCHANGED <<config, firewall_outcome, alignment_outcome, guard_result,
                   eval_reasons, eval_rule_hits, eval_neural_signals, result, invoked>>
    /\ UNCHANGED <<hitlVars, storeVars, replay, company_members>>

NextPolicy ==
    \/ \E ty \in ActionTypes, intent \in IntentInputs, amount \in PolicyAmountInputs :
          PolicyCall(AgentAction("a1", intent, ty, MakePayload(amount, None), None))
    \/ PolicyReturn

\* The policy engine as a function of the action and the thresholds
SpecPolicy == InitPolicy /\ [][NextPolicy]_vars

(***************************************************************************)
(* Properties of the HITL review queue                                     *)
(***************************************************************************)

\* The response of a decide request refused because the task is already `st`
AlreadyDecided(st) == [status |-> st, kind |-> "bad_request", what |-> "already"]

\* Requests r1 (approve) and r2 (reject) have both finished on the same
\* stored task
DecidedBoth(r1, r2) ==
    /\ r1 # r2
    /\ reqs[r1].pc = "done"
    /\ reqs[r2].pc = "done"
    /\ reqs[r1].id = reqs[r2].id
    /\ reqs[r1].status = Some("Approved")
    /\ reqs[r2].status = Some("Rejected")
    /\ reqs[r1].response.kind # "not_found"
    /\ reqs[r2].response.kind # "not_found"

\* C1: when an approve and a reject for the same task have both finished,
\* in whatever interleaving, exactly one of them succeeded and the other got
\* the client error naming the winner's terminal status.
C1_ExactlyOneDecideSucceeds ==
    \A r1, r2 \in Requests :
        DecidedBoth(r1, r2) =>
            \/ /\ reqs[r1].response.kind = "ok"
               /\ reqs[r2].response = AlreadyDecided("approved")
            \/ /\ reqs[r2].response.kind = "ok"
               /\ reqs[r1].response = AlreadyDecided("rejected")

\* C2: once a stored task is approved or rejected, no step changes its
\* status, reviewer_id, reviewed_at or review_notes.
C2_TerminalStateIsFinal ==
    [][ \A t \in DOMAIN hitl_tasks :
            hitl_tasks[t].status \in {"approved", "rejected"} =>
                /\ hitl_tasks'[t].status = hitl_tasks[t].status
                /\ hitl_tasks'[t].reviewer_id = hitl_tasks[t].reviewer_id
                /\ hitl_tasks'[t].reviewed_at = hitl_tasks[t].reviewed_at
                /\ hitl_tasks'[t].review_notes = hitl_tasks[t].review_notes ]_vars

\* C3: with non-overlapping calls, a decide request that found its task not
\* Pending has failed with the client error carrying the status it found, and
\* the stored task is still the task it found.
C3_DecideOnDecidedTaskFails ==
    \A r \in Requests :
        ( /\ reqs[r].pc = "done"
          /\ reqs[r].existing.some
          /\ reqs[r].existing.v.status # "Pending" )
        => /\ reqs[r].response =
                 AlreadyDecided(HitlStatusDisplay(reqs[r].existing.v.status))
           /\ get_hitl_task(hitl_tasks, reqs[r].id) = reqs[r].existing

\* C3's case: an approve succeeded, a later reject of the same task was
\* refused with "approved", and the task is still approved by the first
\* reviewer
C3_Witness ==
    \E r1, r2 \in Requests :
        /\ DecidedBoth(r1, r2)
        /\ reqs[r1].response.kind = "ok"
        /\ reqs[r2].response = AlreadyDecided("approved")
        /\ hitl_tasks[reqs[r1].id].status = "approved"
        /\ hitl_tasks[reqs[r1].id].reviewer_id = Some(ReviewerOf(r1))

(***************************************************************************)
(* Properties of the evaluation pipeline                                   *)
(***************************************************************************)

\* The evaluation evaluate has returned
Returned == pc = "done" /\ result.some

\* `word` occurs in `text`, letter case ignored
OccursIgnoringCase(text, word) ==
    \E i \in 1..(Len(text) - Len(word) + 1) :
        \A j \in 1..Len(word) : LowerChar(text[i + j - 1]) = LowerChar(word[j])

\* The texts of an action: its intent, its chain of thought, and the
\* string-valued fields of its payload
TextsOf(act) ==
    {act.original_intent}
      \cup (IF act.cot_trace.some THEN {act.cot_trace.v} ELSE {})
      \cup { act.payload[k].json_value :
               k \in {f \in DOMAIN act.payload : act.payload[f].json_type = "string"} }

\* Some hard-block keyword occurs in `text`
HasHardBlockKeyword(text) ==
    \E i \in DOMAIN block_keywords : OccursIgnoringCase(text, block_keywords[i])

\* C4: if a hard-block keyword occurs, in any letter case, in the intent, the
\* chain of thought or a string-valued payload field, the decision is Block.
C4_HardBlockKeywordBlocks ==
    Returned =>
        ( (\E text \in TextsOf(action.v) : HasHardBlockKeyword(text))
          => result.v.evaluation.decision = "Block" )

\* C4's case: the keyword is only in a payload field, in another letter case
\* than the firewall's list, on a read-only action
C4_Witness ==
    /\ Returned
    /\ action.v.action_type = "GetBalance"
    /\ ~HasHardBlockKeyword(action.v.original_intent)
    /\ ~action.v.cot_trace.some
    /\ \E text \in TextsOf(action.v) : HasHardBlockKeyword(text)
    /\ result.v.evaluation.decision = "Block"

\* The payload's amount is a number above the HITL threshold
AmountAboveHitlThreshold(act, cfg) ==
    /\ "amount" \in DOMAIN act.payload
    /\ act.payload["amount"].json_type = "number"
    /\ act.payload["amount"].json_value > cfg.hitl_threshold

\* C5: a TransferFunds or PayBill whose payload amount is above
\* hitl_threshold is never allowed.
C5_LargeAmountNeverAllowed ==
    Returned =>
        ( ( /\ action.v.action_type \in {"TransferFunds", "PayBill"}
            /\ AmountAboveHitlThreshold(action.v, config) )
          => result.v.evaluation.decision # "Allow" )

\* C5's case: a large bill payment that the firewall found clean and the
\* alignment checker did not object to, sent to review by the amount alone
C5_Witness ==
    /\ Returned
    /\ action.v.action_type = "PayBill"
    /\ AmountAboveHitlThreshold(action.v, config)
    /\ firewall_outcome.v = Clean
    /\ ~is_misaligned(alignment_outcome.v)
    /\ result.v.evaluation.decision = "RequireHitl"

\* The payload names the same account as source and destination
SameAccount(act) ==
    /\ {"from_account_id", "to_account_id"} \subseteq DOMAIN act.payload
    /\ act.payload["from_account_id"].json_type = "string"
    /\ act.payload["from_account_id"] = act.payload["to_account_id"]

\* C6: a TransferFunds whose from_account_id equals its to_account_id is
\* blocked, whatever the intent, the amount and the other layers' outcomes.
C6_SameAccountTransferBlocked ==
    Returned =>
        ( (action.v.action_type = "TransferFunds" /\ SameAccount(action.v))
          => result.v.evaluation.decision = "Block" )

\* C7: Block comes with Critical, RequireHitl with High or Critical, Allow
\* with Low or Medium.
C7_RiskTierMatchesDecision ==
    Returned =>
        LET e == result.v.evaluation IN
        /\ e.decision = "Block" => e.risk_tier = "Critical"
        /\ e.decision = "RequireHitl" => e.risk_tier \in {"High", "Critical"}
        /\ e.decision = "Allow" => e.risk_tier \in {"Low", "Medium"}

\* C7's case: an allowed action that still triggered a rule, at Medium
C7_Witness ==
    /\ Returned
    /\ result.v.evaluation.decision = "Allow"
    /\ result.v.evaluation.risk_tier = "Medium"
    /\ policy_outcome.v.triggered_rules # <<>>

\* C8: a HitlTask is returned exactly when the decision is RequireHitl, and
\* it is Pending, unreviewed, and refers to this action and this evaluation.
C8_HitlTaskIffRequireHitl ==
    Returned =>
        LET e == result.v.evaluation
            t == result.v.hitl_task
        IN  /\ t.some <=> e.decision = "RequireHitl"
            /\ t.some =>
                 /\ t.v.status = "Pending"
                 /\ t.v.reviewer_id = None
                 /\ t.v.reviewed_at = None
                 /\ t.v.agent_action_id = action.v.id
                 /\ t.v.evaluation_id = e.id

\* C8's case: a task was created for a misaligned action
C8_Witness ==
    /\ Returned
    /\ alignment_outcome.some
    /\ is_misaligned(alignment_outcome.v)
    /\ result.v.hitl_task.some
    /\ result.v.hitl_task.v.id \in TaskIds

\* C9: reasons is non-empty unless the decision is Allow, and rule_hits is
\* non-empty when the decision is Block.
C9_DecisionsAreExplained ==
    Returned =>
        LET e == result.v.evaluation IN
        /\ e.decision # "Allow" => e.reasons # <<>>
        /\ e.decision = "Block" => e.rule_hits # <<>>

\* C9's case: Llama Guard was in the chain and the only finding, a firewall
\* suspicion, sent the action to review with its reasons
C9_Witness ==
    /\ Returned
    /\ config.llm_enabled
    /\ is_suspicious(firewall_outcome.v)
    /\ firewall_outcome.v.reasons[1][1] = "Llama Guard"
    /\ policy_outcome.v.triggered_rules = <<>>
    /\ result.v.evaluation.decision = "RequireHitl"
    /\ result.v.evaluation.reasons = firewall_outcome.v.reasons

\* C10: when the firewall returned Blocked, neither alignment nor policy was
\* invoked, and the result is Block / Critical with the firewall's reasons,
\* rule_hits ["FIREWALL_BLOCK"], neural_signals ["firewall_triggered"] and no
\* HitlTask.
C10_FirewallBlockShortCircuits ==
    (pc \notin {"idle", "firewall"} /\ firewall_outcome.v.kind = "Blocked") =>
        /\ pc = "done"
        /\ invoked = <<"firewall">>
        /\ alignment_outcome = None
        /\ policy_outcome = None
        /\ result.some
        /\ result.v.hitl_task = None
        /\ result.v.evaluation.decision = "Block"
        /\ result.v.evaluation.risk_tier = "Critical"
        /\ result.v.evaluation.reasons = firewall_outcome.v.reasons
        /\ result.v.evaluation.rule_hits = <<"FIREWALL_BLOCK">>
        /\ result.v.evaluation.neural_signals = <<"firewall_triggered">>

\* C10's case: Llama Guard, second in the chain, blocked an action the
\* keyword firewall let through
C10_Witness ==
    /\ Returned
    /\ firewall_outcome.v.kind = "Blocked"
    /\ firewall_outcome.v.reasons[1][1] = "Llama Guard"
    /\ action.v.action_type = "TransferFunds"

\* C11: when the firewall did not block and the alignment checker returned
\* Misaligned, the decision is RequireHitl at High and rule_hits contains
\* ALIGNMENT_MISALIGNED, whatever the policy engine found.
C11_MisalignedRequiresHitl ==
    ( /\ Returned
      /\ ~is_blocked(firewall_outcome.v)
      /\ alignment_outcome.some
      /\ is_misaligned(alignment_outcome.v) )
    => /\ result.v.evaluation.decision = "RequireHitl"
       /\ result.v.evaluation.risk_tier = "High"
       /\ \E i \in DOMAIN result.v.evaluation.rule_hits :
             result.v.evaluation.rule_hits[i] = "ALIGNMENT_MISALIGNED"

\* C11's case: a misaligned action on which the policy suggested a block was
\* sent to review
C11_Witness ==
    /\ Returned
    /\ alignment_outcome.some
    /\ is_misaligned(alignment_outcome.v)
    /\ policy_outcome.v.decision_hint = Some("Block")
    /\ result.v.evaluation.decision = "RequireHitl"

\* The merge table: policy aggregate, then firewall suspicion, then Allow
MergeTable(firewall, policy) ==
    LET aggregate == strictest_decision(policy) IN
    CASE aggregate = Some("Block") -> <<"Block", "Critical">>
      [] aggregate = Some("RequireHitl") -> <<"RequireHitl", "High">>
      [] OTHER ->
           IF firewall.kind = "Suspicious" THEN <<"RequireHitl", "High">>
           ELSE IF policy.triggered_rules # <<>> THEN <<"Allow", "Medium">>
           ELSE <<"Allow", "Low">>

\* C12: for a firewall outcome that is not Blocked and an alignment outcome
\* that is not Misaligned, merge_outcomes returns what the merge table gives.
C12_MergeFollowsTable ==
    ( /\ pc = "merged"
      /\ firewall_outcome.v.kind # "Blocked"
      /\ alignment_outcome.v.kind # "Misaligned" )
    => <<result.v.decision, result.v.risk_tier>>
         = MergeTable(firewall_outcome.v, policy_outcome.v)

\* C12's case: the policy allowed with an informational rule, and the
\* Suspicious firewall alone sent the action to review
C12_Witness ==
    /\ pc = "merged"
    /\ firewall_outcome.v.kind = "Suspicious"
    /\ alignment_outcome.v = AlignmentUnknown
    /\ policy_outcome.v.decision_hint = Some("Allow")
    /\ Len(policy_outcome.v.triggered_rules) = 1
    /\ result.v.decision = "RequireHitl"
    /\ result.v.risk_tier = "High"

Responded == http.pc = "responded"

\* C14: saving a record whose id is already stored succeeds: a retried
\* evaluate_action, whose save_action meets a row with the action's id on a
\* working database, ends with a success response.
C14_SavesAreIdempotent ==
    (Responded /\ http.key_stored /\ ~http.db_fault) => http.response.kind = "ok"

\* The HitlTask rows that refer to evaluation `eid`
TasksOfEvaluation(eid) ==
    {t \in DOMAIN hitl_tasks : hitl_tasks[t].evaluation_id = eid}

\* C17: when evaluate_action responds with success, the action and the
\* evaluation are stored, a pending HitlTask of that evaluation is stored
\* exactly when the decision is RequireHitl, and the response carries
\* hitl_task_id exactly then.
C17_PersistedBeforeResponse ==
    (Responded /\ http.response.kind = "ok") =>
        LET e == result.v.evaluation IN
        /\ http.response.evaluation = e
        /\ action.v.id \in DOMAIN agent_actions
        /\ agent_actions[action.v.id] = action.v
        /\ e.id \in DOMAIN evaluations
        /\ evaluations[e.id] = e
        /\ (e.decision = "RequireHitl") <=> (TasksOfEvaluation(e.id) # {})
        /\ \A t \in TasksOfEvaluation(e.id) :
              /\ hitl_tasks[t].status = "pending"
              /\ http.response.hitl_task_id = Some(t)
        /\ http.response.hitl_task_id.some <=> (e.decision = "RequireHitl")

\* C17's case: a success response for an action sent to review, with the
\* task stored
C17_Witness ==
    /\ Responded
    /\ http.response.kind = "ok"
    /\ result.v.evaluation.decision = "RequireHitl"
    /\ http.response.hitl_task_id.some
    /\ http.response.hitl_task_id.v \in DOMAIN hitl_tasks

GuardFailed == guard_result.some /\ ~guard_result.v.ok

\* classify returned a GuardResult that is not safe
GuardSaidUnsafe ==
    guard_result.some /\ guard_result.v.ok /\ ~guard_result.v.is_safe

\* The outcome of a CompositeFirewall holding the keyword firewall alone
FirewallWithoutGuard(act, cfg) ==
    CompositeLoop(<<"keyword">>, act, cfg, [ok |-> FALSE], <<>>)

\* C15: the neural firewall fails open.  When the classifier call fails, the
\* composite firewall returns what the keyword firewall alone returns (so the
\* failure by itself never blocks), alignment and policy still run, and the
\* decision and risk tier returned are those of the merge of the
\* keyword-only firewall outcome with the alignment and policy outcomes:
\* the pipeline without the neural firewall.
C15_NeuralFirewallFailsOpen ==
    (GuardFailed /\ firewall_outcome.some) =>
        /\ firewall_outcome.v = FirewallWithoutGuard(action.v, config)
        /\ ~is_blocked(firewall_outcome.v)
        /\ Returned =>
              /\ invoked = <<"firewall", "alignment", "policy">>
              /\ alignment_outcome.v = check_alignment(config.alignment_strict, action.v)
              /\ policy_outcome.v = evaluate_policies(config, action.v)
              /\ [decision  |-> result.v.evaluation.decision,
                  risk_tier |-> result.v.evaluation.risk_tier]
                   = merge_outcomes(FirewallWithoutGuard(action.v, config),
                                    check_alignment(config.alignment_strict, action.v),
                                    evaluate_policies(config, action.v))

\* An evaluation whose classifier call failed and that ended in Allow
C15_Witness ==
    /\ Returned
    /\ GuardFailed
    /\ config.llm_enabled
    /\ invoked = <<"firewall", "alignment", "policy">>
    /\ result.v.evaluation.decision = "Allow"

\* C16: with the neural firewall enabled and an unsafe verdict, the composite
\* firewall outcome is Blocked when a violated category is a hard-block
\* category and Suspicious otherwise, for every list of categories, the empty
\* one included: never Clean.
C16_UnsafeVerdictNeverClean ==
    (GuardSaidUnsafe /\ firewall_outcome.some) =>
        firewall_outcome.v.kind =
            IF \E i \in 1..Len(guard_result.v.violated_categories) :
                    IsCriticalCategory(guard_result.v.violated_categories[i])
            THEN "Blocked" ELSE "Suspicious"

(***************************************************************************)
(* Properties of the high-risk action types                                *)
(***************************************************************************)

\* The rule_id check_action_type_rules pushes for a high-risk action type
FixedRuleId(action_type) ==
    CASE action_type = "AddBeneficiary"    -> "ACTION_ADD_BENEFICIARY"
      [] action_type = "CloseAccount"      -> "ACTION_CLOSE_ACCOUNT"
      [] action_type = "UpdateProfile"     -> "ACTION_UPDATE_PROFILE"
      [] action_type = "RequestLoan"       -> "ACTION_REQUEST_LOAN"
      [] action_type = "RefundTransaction" -> "ACTION_REFUND"

HighRiskActionTypes ==
    {"AddBeneficiary", "CloseAccount", "UpdateProfile", "RequestLoan",
     "RefundTransaction"}

\* C19: an action of type AddBeneficiary, CloseAccount, UpdateProfile,
\* RequestLoan or RefundTransaction is never allowed: whenever the policy
\* engine ran on it, the policy outcome holds that type's fixed rule with
\* requires_hitl set, and the decision returned for it is never Allow.
C19_HighRiskTypesNeverAllowed ==
    (action.some /\ action.v.action_type \in HighRiskActionTypes) =>
        /\ policy_outcome.some =>
              \E i \in 1..Len(policy_outcome.v.triggered_rules) :
                  /\ policy_outcome.v.triggered_rules[i].rule_id
                        = FixedRuleId(action.v.action_type)
                  /\ policy_outcome.v.triggered_rules[i].requires_hitl
        /\ Returned => result.v.evaluation.decision # "Allow"

\* A beneficiary is added with nothing else amiss: the firewall is clean, the
\* alignment check does not object, and the fixed rule alone sends it to review
C19_Witness ==
    /\ Returned
    /\ action.v.action_type = "AddBeneficiary"
    /\ firewall_outcome.v = Clean
    /\ ~is_misaligned(alignment_outcome.v)
    /\ policy_outcome.some
    /\ Len(policy_outcome.v.triggered_rules) = 1
    /\ result.v.evaluation.decision = "RequireHitl"
    /\ result.v.evaluation.rule_hits = <<"ACTION_ADD_BENEFICIARY">>

(***************************************************************************)
(* Properties of the stored review tasks                                   *)
(***************************************************************************)

\* The stored task has left Pending
IsDecided(row) == row.status # HitlStatusDisplay("Pending")

\* The tasks inserted by the step
NewTasks == DOMAIN hitl_tasks' \ DOMAIN hitl_tasks

\* C20: every stored HitlTask whose status is not Pending has reviewer_id and
\* reviewed_at set, and a task created by the pipeline is stored Pending with
\* reviewer_id, reviewed_at and review_notes unset.
C20_DecidedTasksNameTheirReviewer ==
    /\ [](\A t \in DOMAIN hitl_tasks :
             IsDecided(hitl_tasks[t]) =>
                 hitl_tasks[t].reviewer_id.some /\ hitl_tasks[t].reviewed_at.some)
    /\ [][\A t \in NewTasks :
             /\ ~IsDecided(hitl_tasks'[t])
             /\ hitl_tasks'[t].reviewer_id = None
             /\ hitl_tasks'[t].reviewed_at = None
             /\ hitl_tasks'[t].review_notes = None]_vars

\* One task has been decided and carries its reviewer and the time, while
\* another is still pending
C20_Witness ==
    \E t, u \in DOMAIN hitl_tasks :
        /\ IsDecided(hitl_tasks[t])
        /\ hitl_tasks[t].reviewer_id.some
        /\ hitl_tasks[t].reviewed_at.some
        /\ ~IsDecided(hitl_tasks[u])
        /\ hitl_tasks[u].reviewer_id = None

(***************************************************************************)
(* Properties of the references between stored rows                        *)
(***************************************************************************)

\* C21: in every state of the store, each stored EvaluationResult refers to a
\* stored AgentAction, and each stored HitlTask refers to a stored
\* EvaluationResult and a stored AgentAction, the task's agent_action_id being
\* that evaluation's, whichever save of evaluate_action failed.
C21_StoredRowsReferToStoredRows ==
    /\ \A e \in DOMAIN evaluations :
          evaluations[e].agent_action_id \in DOMAIN agent_actions
    /\ \A t \in DOMAIN hitl_tasks :
          /\ hitl_tasks[t].evaluation_id \in DOMAIN evaluations
          /\ hitl_tasks[t].agent_action_id \in DOMAIN agent_actions
          /\ hitl_tasks[t].agent_action_id
                = evaluations[hitl_tasks[t].evaluation_id].agent_action_id

\* save_hitl_task has failed after the action and the evaluation were stored,
\* while an earlier request's task is in the store
C21_Witness ==
    /\ Responded
    /\ http.response = DatabaseError("save_hitl_task")
    /\ result.v.evaluation.id \in DOMAIN evaluations
    /\ hitl_tasks # <<>>

(***************************************************************************)
(* Properties of the composite firewall                                    *)
(***************************************************************************)

\* What the firewalls of the chain returned in this evaluation, in list
\* order, as far as the chain was run
OutcomesInOrder ==
    << KeywordFirewallEvaluate(action.v, config.suspicious_keywords) >>
    \o (IF guard_result.some
        THEN << LlamaGuardEvaluate(TRUE, guard_result.v) >>
        ELSE << >>)

\* The reasons of the Suspicious outcomes among `outcomes`, in order
RECURSIVE SuspiciousReasonsOf(_)
SuspiciousReasonsOf(outcomes) ==
    IF outcomes = <<>> THEN <<>>
    ELSE (IF is_suspicious(Head(outcomes)) THEN Head(outcomes).reasons ELSE <<>>)
         \o SuspiciousReasonsOf(Tail(outcomes))

\* C22: the composite firewall runs its firewalls in list order.  The first
\* Blocked outcome ends the run and is returned with its own reasons only;
\* with no Blocked outcome and at least one Suspicious outcome the result is
\* Suspicious with all Suspicious reasons concatenated in order; the result
\* is Clean only when every firewall returned Clean.
C22_CompositeFollowsListOrder ==
    firewall_outcome.some =>
        LET outcomes == OutcomesInOrder
            last     == outcomes[Len(outcomes)]
        IN  /\ \A i \in 1..(Len(outcomes) - 1) : ~is_blocked(outcomes[i])
            /\ (Len(outcomes) < Len(Firewalls(config))) => is_blocked(last)
            /\ firewall_outcome.v =
                   IF is_blocked(last) THEN Blocked(last.reasons)
                   ELSE IF \E i \in 1..Len(outcomes) : is_suspicious(outcomes[i])
                   THEN Suspicious(SuspiciousReasonsOf(outcomes))
                   ELSE Clean

(***************************************************************************)
(* Properties of the policy engine                                         *)
(***************************************************************************)

\* The policy engine has evaluated the action in `action`
PolicyEvaluated == pc = "evaluated" /\ policy_outcome.some

\* The rule ids among `ids` that the policy outcome holds, in order
TriggeredAmong(ids) ==
    SelectSeq(rule_ids(policy_outcome.v), LAMBDA x : x \in ids)

\* C23: for a TransferFunds or PayBill action with an amount, at most one of
\* AMOUNT_INVALID, AMOUNT_EXCEEDS_HITL_THRESHOLD and AMOUNT_EXCEEDS_AUTO_LIMIT
\* is triggered, whatever the amount and the two thresholds: amount <= 0 gives
\* AMOUNT_INVALID only, else amount > hitl_threshold gives
\* AMOUNT_EXCEEDS_HITL_THRESHOLD only, else amount > max_auto_amount gives
\* AMOUNT_EXCEEDS_AUTO_LIMIT only, else none.  With no amount the only amount
\* rule is AMOUNT_MISSING.
C23_OneAmountRuleAtMost ==
    (PolicyEvaluated /\ action.v.action_type \in {"TransferFunds", "PayBill"}) =>
        LET amount == payload_get(action.v.payload, "amount") IN
        IF ~amount.some
        THEN TriggeredAmong({"AMOUNT_MISSING", "AMOUNT_INVALID",
                             "AMOUNT_EXCEEDS_HITL_THRESHOLD",
                             "AMOUNT_EXCEEDS_AUTO_LIMIT", "AMOUNT_SUSPICIOUS_ROUND"})
               = <<"AMOUNT_MISSING">>
        ELSE TriggeredAmong({"AMOUNT_MISSING", "AMOUNT_INVALID",
                             "AMOUNT_EXCEEDS_HITL_THRESHOLD",
                             "AMOUNT_EXCEEDS_AUTO_LIMIT"})
               = IF as_f64(amount.v).v <= 0 THEN <<"AMOUNT_INVALID">>
                 ELSE IF as_f64(amount.v).v > config.hitl_threshold
                 THEN <<"AMOUNT_EXCEEDS_HITL_THRESHOLD">>
                 ELSE IF as_f64(amount.v).v > config.max_auto_amount
                 THEN <<"AMOUNT_EXCEEDS_AUTO_LIMIT">>
                 ELSE <<>>

(***************************************************************************)
(* Properties of the alignment checker                                     *)
(***************************************************************************)

\* C24: for CloseAccount, AddBeneficiary and RequestLoan the alignment
\* checker returns Misaligned whenever the inferred intent type differs from
\* the action type, an intent from which no type can be inferred included,
\* in strict and in non-strict mode.
C24_CriticalActionNeedsMatchingIntent ==
    (alignment_outcome.some
       /\ action.v.action_type \in {"CloseAccount", "AddBeneficiary", "RequestLoan"}
       /\ infer_intent_type(action.v.original_intent) # Some(action.v.action_type)) =>
        /\ is_misaligned(alignment_outcome.v)
        /\ \A strict_mode \in BOOLEAN :
              is_misaligned(check_alignment(strict_mode, action.v))

\* The intent text infers a read-only type and the action is a write
ReadIntentWriteAction(act) ==
    /\ infer_intent_type(act.original_intent) \in {Some("GetBalance"), Some("GetTransactions")}
    /\ act.action_type \in {"TransferFunds", "PayBill", "CloseAccount"}

\* C25: when the intent infers GetBalance or GetTransactions and the action
\* is TransferFunds, PayBill or CloseAccount, the alignment checker returns
\* Misaligned in strict and in non-strict mode, and unless the firewall
\* blocks, the pipeline returns RequireHitl with ALIGNMENT_MISALIGNED among
\* the rule hits and a pending HitlTask.
C25_ReadIntentWriteActionIsMisaligned ==
    (action.some /\ ReadIntentWriteAction(action.v)) =>
        /\ \A strict_mode \in BOOLEAN :
              is_misaligned(check_alignment(strict_mode, action.v))
        /\ alignment_outcome.some => is_misaligned(alignment_outcome.v)
        /\ (Returned /\ ~is_blocked(firewall_outcome.v)) =>
              /\ result.v.evaluation.decision = "RequireHitl"
              /\ \E i \in 1..Len(result.v.evaluation.rule_hits) :
                    result.v.evaluation.rule_hits[i] = "ALIGNMENT_MISALIGNED"
              /\ result.v.hitl_task.some
              /\ result.v.hitl_task.v.status = "Pending"
              /\ result.v.hitl_task.v.evaluation_id = result.v.evaluation.id

\* A read-only request carried out as a transfer, not blocked by the
\* firewall, is sent to review
C25_Witness ==
    /\ Returned
    /\ ReadIntentWriteAction(action.v)
    /\ action.v.action_type = "TransferFunds"
    /\ ~is_blocked(firewall_outcome.v)
    /\ result.v.evaluation.decision = "RequireHitl"
    /\ result.v.hitl_task.some

(***************************************************************************)
(* Properties of concurrent evaluate_action requests                       *)
(***************************************************************************)

\* C26: the store never holds two evaluations, or two HitlTasks, with the
\* same agent_action_id, under any sequence or interleaving of
\* evaluate_action requests, resubmissions of an action id included.
C26_OneEvaluationPerAction ==
    /\ \A e1, e2 \in DOMAIN evaluations :
          evaluations[e1].agent_action_id = evaluations[e2].agent_action_id => e1 = e2
    /\ \A t1, t2 \in DOMAIN hitl_tasks :
          hitl_tasks[t1].agent_action_id = hitl_tasks[t2].agent_action_id => t1 = t2

\* Two requests carry the same action id: one has stored the action and its
\* evaluation and is about to store its task, the other has been refused by
\* save_action meanwhile
C26_Witness ==
    \E r1, r2 \in Requests :
        /\ r1 # r2
        /\ reqs[r1].pc = "save_hitl_task"
        /\ reqs[r2].pc = "responded"
        /\ reqs[r2].response = DatabaseError("save_action")
        /\ reqs[r1].action.v.id = reqs[r2].action.v.id
        /\ reqs[r1].result.v.evaluation.id \in DOMAIN evaluations

(***************************************************************************)
(* Properties of the unknown-action heuristic                              *)
(***************************************************************************)

\* The (rule_id, suggests_block, requires_hitl) triples of the policy outcome
TriggeredFlags ==
    [i \in 1..Len(policy_outcome.v.triggered_rules) |->
        << policy_outcome.v.triggered_rules[i].rule_id,
           policy_outcome.v.triggered_rules[i].suggests_block,
           policy_outcome.v.triggered_rules[i].requires_hitl >>]

\* The intent text of `act` holds one of the financial verbs
HasFinancialVerb(act) ==
    \E i \in 1..Len(financial_keywords) :
        contains(to_lowercase(act.original_intent), financial_keywords[i])

\* The table of the unknown-action heuristic, for a detected amount
UnknownTable(cfg, verb, amount) ==
    IF verb
    THEN IF amount.some /\ amount.v > cfg.hitl_threshold
         THEN << <<"UNCLASSIFIED_HIGH_VALUE_TRANSFER", TRUE, FALSE>> >>
         ELSE IF amount.some /\ amount.v > cfg.max_auto_amount
         THEN << <<"UNCLASSIFIED_TRANSFER_NEEDS_REVIEW", FALSE, TRUE>> >>
         ELSE IF amount.some
         THEN << <<"UNCLASSIFIED_SMALL_TRANSFER", FALSE, FALSE>> >>
         ELSE << <<"UNCLASSIFIED_FINANCIAL_INTENT", FALSE, TRUE>> >>
    ELSE IF amount.some /\ amount.v > cfg.max_auto_amount
         THEN << <<"UNCLASSIFIED_AMOUNT_DETECTED", FALSE, TRUE>> >>
         ELSE << >>

\* C27: for an Unknown action the policy engine triggers at most one rule,
\* fixed by whether a financial verb is present and by the amount detected
\* in the intent text: with a verb, HIGH_VALUE_TRANSFER (block) above
\* hitl_threshold, else TRANSFER_NEEDS_REVIEW (hitl) above max_auto_amount,
\* else SMALL_TRANSFER (no flag) for any amount, FINANCIAL_INTENT (hitl) for
\* none; without a verb, AMOUNT_DETECTED (hitl) exactly when an amount above
\* max_auto_amount is detected, and otherwise nothing.
C27_UnknownActionFollowsTable ==
    (PolicyEvaluated /\ action.v.action_type = "Unknown") =>
        /\ Len(policy_outcome.v.triggered_rules) <= 1
        /\ TriggeredFlags =
              UnknownTable(config, HasFinancialVerb(action.v),
                           extract_amount_from_text(action.v.original_intent))

\* An amount with no financial verb is detected and sent to review
C27_Witness ==
    /\ PolicyEvaluated
    /\ action.v.action_type = "Unknown"
    /\ ~HasFinancialVerb(action.v)
    /\ TriggeredFlags = << <<"UNCLASSIFIED_AMOUNT_DETECTED", FALSE, TRUE>> >>

\* C28: for an Unknown action whose intent text yields no amount while the
\* payload carries a numeric amount, the unknown-action rules are those of
\* the payload's amount.
C28_PayloadAmountIsFallback ==
    (PolicyEvaluated
       /\ action.v.action_type = "Unknown"
       /\ ~extract_amount_from_text(action.v.original_intent).some
       /\ payload_get(action.v.payload, "amount").some
       /\ as_f64(payload_get(action.v.payload, "amount").v).some) =>
        TriggeredFlags =
            UnknownTable(config, HasFinancialVerb(action.v),
                         as_f64(payload_get(action.v.payload, "amount").v))

(***************************************************************************)
(* Properties of the decision response                                     *)
(***************************************************************************)

\* C29: a successful submit_hitl_decision response reports as the task's
\* status the decision that this request submitted: its status field agrees
\* with the decision named in its message, whatever other decide requests on
\* the same task do meanwhile.
C29_ResponseReportsOwnDecision ==
    \A r \in Requests :
        (reqs[r].pc = "done" /\ reqs[r].response.kind = "ok") =>
            /\ reqs[r].response.status = reqs[r].status.v
            /\ reqs[r].response.status = reqs[r].response.message

(***************************************************************************)
(* Properties of company membership                                        *)
(***************************************************************************)

\* C30: a company that has an owner keeps at least one owner, whatever
\* update_member_role and remove_company_member requests are made and
\* however they interleave.
C30_CompanyKeepsAnOwner == owner_count(company_members) >= 1

====
